---- MODULE Spec2Model ----
(***************************************************************************)
(* A model of batelec-monitor's interruption-record reconciler (the admin  *)
(* endpoint of routers/admin.py) and of its get-or-create helper, run      *)
(* against a relational store whose calls may fail.                        *)
(*                                                                         *)
(* Strings the code inspects character by character (time strings) are     *)
(* sequences of one-character strings; names, dates and reasons are atoms. *)
(* The empty string / empty sequence stands for an absent, None or empty   *)
(* value (all falsy in Python); the identifier 0 stands for None.          *)
(***************************************************************************)
EXTENDS Integers, Sequences, FiniteSets, TLC

VARIABLES
    db,        \* the store: table name -> sequence of rows, in insertion order
               \* (in the scraper part: the router's module globals)
    proc,      \* per caller: the local state of the handler it is running
    hist,      \* the finished calls, in the order they returned
    nfail      \* number of store calls that have failed so far

vars == <<db, proc, hist, nfail>>

(***************************************************************************)
(* Bounds of the model.                                                    *)
(***************************************************************************)
MaxRuns == 2          \* calls (reconciliations or get_or_create calls) started
MaxFailures == 1      \* store calls that fail in one behaviour

Procs == {"p1", "p2"}

(***************************************************************************)
(* Date and time parsing (admin.py, step 3).                               *)
(***************************************************************************)
Fail == "ParserError"

Digits == {"0", "1", "2", "3", "4", "5", "6", "7", "8", "9"}

DigitVal(c) ==
    CASE c = "0" -> 0 [] c = "1" -> 1 [] c = "2" -> 2 [] c = "3" -> 3
      [] c = "4" -> 4 [] c = "5" -> 5 [] c = "6" -> 6 [] c = "7" -> 7
      [] c = "8" -> 8 [] c = "9" -> 9

\* str.strip(): drops leading and trailing blanks.
RECURSIVE lstrip(_)
lstrip(s) == IF s # <<>> /\ Head(s) = " " THEN lstrip(Tail(s)) ELSE s

RECURSIVE rstrip(_)
rstrip(s) ==
    IF s # <<>> /\ s[Len(s)] = " " THEN rstrip(SubSeq(s, 1, Len(s) - 1)) ELSE s

strip(s) == rstrip(lstrip(s))

\* str.upper() on the letters of the model's alphabet.
UpperChar(c) ==
    CASE c = "h" -> "H" [] c = "t" -> "T" [] c = "b" -> "B" [] c = "a" -> "A"
      [] OTHER -> c

upper(s) == [k \in 1..Len(s) |-> UpperChar(s[k])]

\* Variant: the letter's case is kept.
clean_time_string_CaseSensitive(time_str) ==
    LET s == strip(time_str) IN
    IF Len(s) = 5 /\ s[5] = "H" /\ \A k \in 1..4 : s[k] \in Digits
    THEN <<s[1], s[2], ":", s[3], s[4]>>
    ELSE s

\* clean_time_string: "HHMMH" becomes "HH:MM"; anything else is returned
\* stripped and upper-cased.
clean_time_string(time_str) ==
    LET s == upper(strip(time_str)) IN
    IF Len(s) = 5 /\ s[5] = "H" /\ \A k \in 1..4 : s[k] \in Digits
    THEN <<s[1], s[2], ":", s[3], s[4]>>
    ELSE s

\* Variant: hour and minute are not range-checked.
ParseTime_NoRangeCheck(s) ==
    IF Len(s) = 5 /\ s[3] = ":" /\ \A k \in {1, 2, 4, 5} : s[k] \in Digits
    THEN [ok |-> TRUE,
          hour |-> 10 * DigitVal(s[1]) + DigitVal(s[2]),
          minute |-> 10 * DigitVal(s[4]) + DigitVal(s[5])]
    ELSE [ok |-> FALSE]

\* dateutil's parser.parse(...).time() on the strings of the model: "HH:MM"
\* with a valid hour and minute is a time, everything else is a ParserError.
ParseTime(s) ==
    IF Len(s) = 5 /\ s[3] = ":" /\ \A k \in {1, 2, 4, 5} : s[k] \in Digits
    THEN LET hh == 10 * DigitVal(s[1]) + DigitVal(s[2])
             mm == 10 * DigitVal(s[4]) + DigitVal(s[5])
         IN  IF hh < 24 /\ mm < 60
             THEN [ok |-> TRUE, hour |-> hh, minute |-> mm]
             ELSE [ok |-> FALSE]
    ELSE [ok |-> FALSE]

\* dateutil's parser.parse(...).date().isoformat() on the date strings of the
\* model.
ParseDate(raw) ==
    CASE raw = "2025-06-05" -> "2025-06-05"
      [] raw = "June 5, 2025" -> "2025-06-05"
      [] raw = "2025-06-06" -> "2025-06-06"
      [] OTHER -> Fail

\* datetime.combine(parsed_date, parsed_time)
combine(d, t) == [date |-> d, hour |-> t.hour, minute |-> t.minute]

\* datetime.isoformat() and parser.isoparse(): the stored text of a timestamp
\* and the value read back from it.
isoformat(dt) == <<dt.date, "T", dt.hour, dt.minute>>

isoparse(s) == [date |-> s[1], hour |-> s[3], minute |-> s[4]]

\* Step 3 of the endpoint: the parsed date and the two datetimes; ok is FALSE
\* for the ValueError / ParserError caught at line 135.
ParseDateTimes(data_dict) ==
    LET raw_date == data_dict.date
        raw_start == data_dict.start_time
        raw_end == data_dict.end_time
    IN
    IF raw_date = "" \/ raw_start = <<>> \/ raw_end = <<>> THEN [ok |-> FALSE]
    ELSE LET parsed_date == ParseDate(raw_date)
             parsed_start_time == ParseTime(clean_time_string(raw_start))
             parsed_end_time == ParseTime(clean_time_string(raw_end))
         IN  IF parsed_date = Fail \/ ~parsed_start_time.ok \/ ~parsed_end_time.ok
             THEN [ok |-> FALSE]
             ELSE [ok |-> TRUE,
                   target_date_str |-> parsed_date,
                   full_start_datetime |-> combine(parsed_date, parsed_start_time),
                   full_end_datetime |-> combine(parsed_date, parsed_end_time)]

(***************************************************************************)
(* The store.  Every table is the sequence of its rows in insertion order; *)
(* an entity row's id is its position (ids are assigned 1, 2, ...).        *)
(***************************************************************************)
EntityTables ==
    {"affected_areas", "affected_customers", "specific_activities", "personnel"}

LinkTables ==
    {"data_areas", "data_customers", "data_activities",
     "notice_personnel", "notice_customers", "notice_activities"}

Tables ==
    EntityTables \cup LinkTables
        \cup {"power_interruption_data", "power_interruption_notices", "barangays"}

EmptyStore == [t \in Tables |-> <<>>]

\* Variant: every new row gets the same identifier.
NewId_NoSequence(store, t) == 1

\* supabase.table(t).insert(row).execute() when it succeeds: the row is stored
\* under the next identifier, which the response carries.
NewId(store, t) == Len(store[t]) + 1

WithId(row, id) ==
    [c \in DOMAIN row \cup {"id"} |-> IF c = "id" THEN id ELSE row[c]]

\* Variant: the write also overwrites the rows the table already holds.
Insert_Rewriting(store, t, row) ==
    [store EXCEPT ![t] = [k \in 1..(Len(@) + 1) |-> WithId(row, k)]]

Insert(store, t, row) ==
    [store EXCEPT ![t] = Append(@, WithId(row, NewId(store, t)))]

\* A link row has no identifier of its own.
InsertLink(store, t, row) == [store EXCEPT ![t] = Append(@, row)]

\* Variant: the select filters on name alone.
SelectEq_NameOnly(store, t, item_data, match_columns) ==
    SelectSeq(store[t],
              LAMBDA r : \A c \in match_columns \cap {"name"} : r[c] = item_data[c])

\* Variant: the select finds no row.
SelectEq_Nothing(store, t, item_data, match_columns) == <<>>

\* supabase.table(t).select(...).eq(c, item_data[c]) for every match column.
SelectEq(store, t, item_data, match_columns) ==
    SelectSeq(store[t], LAMBDA r : \A c \in match_columns : r[c] = item_data[c])

\* What a store call can answer: the rows asked for or inserted ("ok"), an
\* empty result, or an exception.  A select has no failing empty answer.
InsertResults == {"ok", "empty", "exc"}
SelectResults == {"ok", "exc"}

(***************************************************************************)
(* The related-entity sections of the endpoint, in the order the code runs *)
(* them: the notice's personnel, customers and activities (step 5), the    *)
(* main insert (step 6), then areas, customers and activities (steps 7-9). *)
(***************************************************************************)
NoticeSections == {"n_personnel", "n_customers", "n_activities"}
DataSections == {"areas", "customers", "activities"}

\* Variant: the record's activities are processed before its customers.
SecAfter_ActivitiesFirst(sec) ==
    CASE sec = "n_personnel" -> "n_customers"
      [] sec = "n_customers" -> "n_activities"
      [] sec = "n_activities" -> "main"
      [] sec = "areas" -> "activities"
      [] sec = "activities" -> "customers"
      [] sec = "customers" -> "end"

SecAfter(sec) ==
    CASE sec = "n_personnel" -> "n_customers"
      [] sec = "n_customers" -> "n_activities"
      [] sec = "n_activities" -> "main"
      [] sec = "areas" -> "customers"
      [] sec = "customers" -> "activities"
      [] sec = "activities" -> "end"

EntityTable(sec) ==
    CASE sec = "n_personnel" -> "personnel"
      [] sec \in {"n_customers", "customers"} -> "affected_customers"
      [] sec \in {"n_activities", "activities"} -> "specific_activities"
      [] sec = "areas" -> "affected_areas"

LinkTable(sec) ==
    CASE sec = "n_personnel" -> "notice_personnel"
      [] sec = "n_customers" -> "notice_customers"
      [] sec = "n_activities" -> "notice_activities"
      [] sec = "areas" -> "data_areas"
      [] sec = "customers" -> "data_customers"
      [] sec = "activities" -> "data_activities"

MatchColumns(sec) ==
    IF sec = "n_personnel" THEN {"name", "position"} ELSE {"name"}

Names(seq) == [k \in 1..Len(seq) |-> [name |-> seq[k]]]

\* The item_data the section's loop hands to get_or_create_related_item, one
\* per list element.
SecItems(data_dict, sec) ==
    LET notice_data == data_dict.notices[1] IN
    CASE sec = "n_personnel" -> notice_data.personnel
      [] sec = "n_customers" -> Names(notice_data.affected_customers)
      [] sec = "n_activities" -> Names(notice_data.specific_activities)
      [] sec = "areas" ->
            [k \in 1..Len(data_dict.affected_areas) |->
                [name |-> data_dict.affected_areas[k].name]]
      [] sec = "customers" -> Names(data_dict.affected_customers)
      [] sec = "activities" -> Names(data_dict.specific_activities)

\* The loops skip an element whose name (or position) is missing.
ItemValid(item) == \A c \in DOMAIN item : item[c] # ""

\* Variant: no element is skipped.
NextItem_NoSkip(items, i) == IF i > Len(items) THEN 0 ELSE i

\* The first element at or after i that the loop does not skip (0: none).
RECURSIVE NextItem(_, _)
NextItem(items, i) ==
    IF i > Len(items) THEN 0
    ELSE IF ItemValid(items[i]) THEN i
    ELSE NextItem(items, i + 1)

\* Where control goes from element i of section sec: the next get-or-create,
\* the main insert, or the end of the endpoint.
RECURSIVE Seek(_, _, _)
Seek(data_dict, sec, i) ==
    IF sec \in {"main", "end"} THEN [sec |-> sec, i |-> 0]
    ELSE LET k == NextItem(SecItems(data_dict, sec), i) IN
         IF k # 0 THEN [sec |-> sec, i |-> k]
         ELSE Seek(data_dict, SecAfter(sec), 1)

\* The link row written after a successful get-or-create.
LinkRow(sec, st) ==
    CASE sec = "n_personnel" ->
            [notice_id |-> st.notice_id, personnel_id |-> st.item_id]
      [] sec = "n_customers" ->
            [notice_id |-> st.notice_id, customer_id |-> st.item_id]
      [] sec = "n_activities" ->
            [notice_id |-> st.notice_id, activity_id |-> st.item_id]
      [] sec = "areas" -> [data_id |-> st.record_id, area_id |-> st.item_id]
      [] sec = "customers" ->
            [data_id |-> st.record_id, customer_id |-> st.item_id]
      [] sec = "activities" ->
            [data_id |-> st.record_id, activity_id |-> st.item_id]

\* Variant: any first notice is inserted.
NoticeReady_AnyNotice(data_dict) == data_dict.notices # <<>>

\* Step 5's guard: a first notice with control_no and a parseable date_issued.
NoticeReady(data_dict) ==
    /\ data_dict.notices # <<>>
    /\ data_dict.notices[1].control_no # ""
    /\ data_dict.notices[1].date_issued # ""
    /\ ParseDate(data_dict.notices[1].date_issued) # Fail

(***************************************************************************)
(* Step 4: the existence check.                                            *)
(***************************************************************************)
\* select("id, start_time, end_time, affected_areas(name)").eq("date", d):
\* each row of the date with the areas linked to it through data_areas.
EmbeddedAreas(store, id) ==
    LET links == SelectSeq(store["data_areas"], LAMBDA l : l.data_id = id) IN
    [k \in 1..Len(links) |-> [name |-> store["affected_areas"][links[k].area_id].name]]

SameDateRecords(store, target_date_str) ==
    LET rows == SelectSeq(store["power_interruption_data"],
                          LAMBDA r : r.date = target_date_str)
    IN  [k \in 1..Len(rows) |->
            [id |-> rows[k].id,
             start_time |-> rows[k].start_time,
             end_time |-> rows[k].end_time,
             affected_areas |-> EmbeddedAreas(store, rows[k].id)]]

AreaNameSet(areas) ==
    {areas[k].name : k \in {n \in 1..Len(areas) : areas[n].name # ""}}

\* Variant: the area names are compared as lists, in order.
ExactMatch_Ordered(existing_record, parsed, data_dict) ==
    /\ isoparse(existing_record.start_time) = parsed.full_start_datetime
    /\ isoparse(existing_record.end_time) = parsed.full_end_datetime
    /\ [k \in 1..Len(existing_record.affected_areas) |->
            existing_record.affected_areas[k].name]
         = [k \in 1..Len(data_dict.affected_areas) |->
                data_dict.affected_areas[k].name]

\* Variant: only the times are compared.
ExactMatch_TimesOnly(existing_record, parsed, data_dict) ==
    /\ isoparse(existing_record.start_time) = parsed.full_start_datetime
    /\ isoparse(existing_record.end_time) = parsed.full_end_datetime

\* Lines 177-227: times and area-name sets both equal.
ExactMatch(existing_record, parsed, data_dict) ==
    LET times_match ==
            /\ isoparse(existing_record.start_time) = parsed.full_start_datetime
            /\ isoparse(existing_record.end_time) = parsed.full_end_datetime
        areas_match ==
            AreaNameSet(existing_record.affected_areas)
                = AreaNameSet(data_dict.affected_areas)
    IN  times_match /\ areas_match

RECURSIVE FirstMatch(_, _, _, _)

\* Variant: only the first record of the date is compared.
FirstMatch_FirstOnly(data, k, parsed, data_dict) ==
    IF Len(data) > 0 /\ ExactMatch(data[1], parsed, data_dict)
    THEN data[1].id
    ELSE 0

\* The loop of line 171: the id of the first exact match, 0 when there is none.
FirstMatch(data, k, parsed, data_dict) ==
    IF k > Len(data) THEN 0
    ELSE IF ExactMatch(data[k], parsed, data_dict) THEN data[k].id
    ELSE FirstMatch(data, k + 1, parsed, data_dict)

\* Step 6: the main row.
NewRecordData(data_dict, parsed, notice_id) ==
    [reason |-> data_dict.reason,
     date |-> parsed.target_date_str,
     start_time |-> isoformat(parsed.full_start_datetime),
     end_time |-> isoformat(parsed.full_end_datetime),
     notice_id |-> notice_id]

(***************************************************************************)
(* The callers.  A caller runs the admin endpoint (a reconciliation) or a  *)
(* bare get_or_create_related_item call; pc names the store call it is     *)
(* about to make.                                                          *)
(***************************************************************************)
NoData == [is_power_interruption_related |-> FALSE]
NoCall == [table |-> ""]

Idle ==
    [pc |-> "idle", data_dict |-> NoData, call |-> NoCall,
     sec |-> "", i |-> 0, j |-> 0,
     notice_id |-> 0, record_id |-> 0, item_id |-> 0,
     fails |-> {}, fresh |-> FALSE, found |-> 0, seen |-> <<>>,
     pre |-> EmptyStore]

Started == Len(hist) + Cardinality({q \in Procs : proc[q].pc # "idle"})

NoOverlap == \A q \in Procs : proc[q].pc = "idle"

HTTP_422_UNPROCESSABLE_ENTITY == 422
HTTP_503_SERVICE_UNAVAILABLE == 503
HTTP_500_INTERNAL_SERVER_ERROR == 500
HTTP_200_OK == 200

\* What the caller of the endpoint receives for each way it ends.
StatusCode(status) ==
    CASE status = "ParseError" -> HTTP_422_UNPROCESSABLE_ENTITY
      [] status = "CheckFailed" -> HTTP_503_SERVICE_UNAVAILABLE
      [] status = "CreationFailed" -> HTTP_503_SERVICE_UNAVAILABLE
      [] status = "UnexpectedError" -> HTTP_500_INTERNAL_SERVER_ERROR
      [] OTHER -> HTTP_200_OK

\* A store call fails only while the failure budget lasts.
MayAnswer(res) == res = "ok" \/ nfail < MaxFailures

Failed(st, res, what, t) ==
    IF res = "ok" THEN st
    ELSE [st EXCEPT !.fails = @ \cup {[call |-> what, table |-> t]}]

CountFailure(res) == nfail' = IF res = "ok" THEN nfail ELSE nfail + 1

\* The handler returns (or raises): the call is recorded and the caller is
\* idle again.  db' is the store the call leaves behind.
Finish(p, st, status, id) ==
    /\ hist' = Append(hist,
            [data_dict |-> st.data_dict, call |-> st.call,
             status |-> status, code |-> StatusCode(status), id |-> id,
             fails |-> st.fails, fresh |-> st.fresh, found |-> st.found,
             seen |-> st.seen, pre |-> st.pre, post |-> db'])
    /\ proc' = [proc EXCEPT ![p] = Idle]

\* Control moves on to the store call at tgt (a result of Seek).
Continue(p, st, tgt) ==
    IF tgt.sec = "end"
    THEN Finish(p, st, "Created", st.record_id)
    ELSE /\ proc' = [proc EXCEPT ![p] =
                [st EXCEPT !.pc = IF tgt.sec = "main" THEN "main" ELSE "select",
                           !.sec = tgt.sec, !.i = tgt.i, !.j = 0,
                           !.item_id = 0]]
         /\ UNCHANGED hist

\* The arguments of the get_or_create_related_item call in progress.
CallOf(st) ==
    IF st.sec = "call" THEN st.call
    ELSE [table |-> EntityTable(st.sec),
          item_data |-> SecItems(st.data_dict, st.sec)[st.i],
          match_columns |-> MatchColumns(st.sec)]

\* get_or_create_related_item returns id (0: None) to its caller.
AfterGetOrCreate(p, st, id) ==
    IF st.sec = "call" THEN Finish(p, st, "Returned", id)
    ELSE IF id = 0 THEN Continue(p, st, Seek(st.data_dict, st.sec, st.i + 1))
    ELSE /\ proc' = [proc EXCEPT ![p] = [st EXCEPT !.pc = "link", !.item_id = id]]
         /\ UNCHANGED hist

Barangays(st) == Names(st.data_dict.affected_areas[st.i].barangays)

\* The barangay loop of area i moves on to the element at or after j.
NextBarangay(p, st, j) ==
    LET k == NextItem(Barangays(st), j) IN
    IF k = 0 THEN Continue(p, st, Seek(st.data_dict, "areas", st.i + 1))
    ELSE /\ proc' = [proc EXCEPT ![p] = [st EXCEPT !.pc = "bgy_select", !.j = k]]
         /\ UNCHANGED hist

(***************************************************************************)
(* The admin endpoint, one action per store call.                          *)
(***************************************************************************)
\* Variant: the relevance flag is not looked at.
Admin_NoRelevanceCheck(p, data_dict) ==
    LET st == [Idle EXCEPT !.data_dict = data_dict, !.pre = db] IN
    /\ proc[p].pc = "idle"
    /\ Started < MaxRuns
    /\ UNCHANGED <<db, nfail>>
    /\ IF ~ParseDateTimes(data_dict).ok
       THEN Finish(p, st, "ParseError", 0)
       ELSE /\ proc' = [proc EXCEPT ![p] = [st EXCEPT !.pc = "check"]]
            /\ UNCHANGED hist

\* Steps 1-3: the extraction arrives; relevance check and date/time parsing.
Admin(p, data_dict) ==
    LET st == [Idle EXCEPT !.data_dict = data_dict, !.pre = db] IN
    /\ proc[p].pc = "idle"
    /\ Started < MaxRuns
    /\ UNCHANGED <<db, nfail>>
    /\ IF ~data_dict.is_power_interruption_related
       THEN Finish(p, st, "Irrelevant", 0)
       ELSE IF ~ParseDateTimes(data_dict).ok
       THEN Finish(p, st, "ParseError", 0)
       ELSE /\ proc' = [proc EXCEPT ![p] = [st EXCEPT !.pc = "check"]]
            /\ UNCHANGED hist

\* Variant: a failing same-date query counts as "no record of that date".
ExistenceCheck_FailOpen(p, res) ==
    LET st == Failed(proc[p], res, "select", "power_interruption_data")
        parsed == ParseDateTimes(st.data_dict)
        data == IF res = "exc" THEN <<>>
                ELSE SameDateRecords(db, parsed.target_date_str)
        record_id == FirstMatch(data, 1, parsed, st.data_dict)
    IN
    /\ proc[p].pc = "check"
    /\ MayAnswer(res)
    /\ UNCHANGED db
    /\ CountFailure(res)
    /\ IF record_id # 0
       THEN Finish(p, [st EXCEPT !.seen = data], "Duplicate", record_id)
       ELSE /\ proc' = [proc EXCEPT ![p] =
                    [st EXCEPT !.fresh = (data = <<>>), !.seen = data,
                               !.pc = IF NoticeReady(st.data_dict)
                                      THEN "notice" ELSE "main"]]
            /\ UNCHANGED hist

\* Step 4: the same-date query and the comparison loop.
ExistenceCheck(p, res) ==
    LET st == Failed(proc[p], res, "select", "power_interruption_data")
        parsed == ParseDateTimes(st.data_dict)
        data == SameDateRecords(db, parsed.target_date_str)
        record_id == FirstMatch(data, 1, parsed, st.data_dict)
    IN
    /\ proc[p].pc = "check"
    /\ MayAnswer(res)
    /\ UNCHANGED db
    /\ CountFailure(res)
    /\ IF res = "exc" THEN Finish(p, st, "CheckFailed", 0)
       ELSE IF record_id # 0
       THEN Finish(p, [st EXCEPT !.seen = data], "Duplicate", record_id)
       ELSE /\ proc' = [proc EXCEPT ![p] =
                    [st EXCEPT !.fresh = (data = <<>>), !.seen = data,
                               !.pc = IF NoticeReady(st.data_dict)
                                      THEN "notice" ELSE "main"]]
            /\ UNCHANGED hist

\* Variant: a notice whose control_no is already stored is reused.
NoticeInsert_GetOrCreate(p, res) ==
    LET st == Failed(proc[p], res, "insert", "power_interruption_notices")
        notice_data == st.data_dict.notices[1]
        row == [control_no |-> notice_data.control_no,
                date_issued |-> ParseDate(notice_data.date_issued)]
        old == SelectEq(db, "power_interruption_notices", row, {"control_no"})
    IN
    /\ proc[p].pc = "notice"
    /\ MayAnswer(res)
    /\ CountFailure(res)
    /\ IF res = "ok"
       THEN /\ db' = IF Len(old) > 0 THEN db
                     ELSE Insert(db, "power_interruption_notices", row)
            /\ Continue(p, [st EXCEPT !.notice_id =
                                IF Len(old) > 0 THEN old[1].id
                                ELSE NewId(db, "power_interruption_notices")],
                        Seek(st.data_dict, "n_personnel", 1))
       ELSE /\ UNCHANGED db
            /\ Continue(p, st, [sec |-> "main", i |-> 0])

\* Step 5: the notice row.
NoticeInsert(p, res) ==
    LET st == Failed(proc[p], res, "insert", "power_interruption_notices")
        notice_data == st.data_dict.notices[1]
        row == [control_no |-> notice_data.control_no,
                date_issued |-> ParseDate(notice_data.date_issued)]
    IN
    /\ proc[p].pc = "notice"
    /\ MayAnswer(res)
    /\ CountFailure(res)
    /\ IF res = "ok"
       THEN /\ db' = Insert(db, "power_interruption_notices", row)
            /\ Continue(p, [st EXCEPT !.notice_id =
                                NewId(db, "power_interruption_notices")],
                        Seek(st.data_dict, "n_personnel", 1))
       ELSE /\ UNCHANGED db
            /\ Continue(p, st, [sec |-> "main", i |-> 0])

\* get_or_create_related_item: the select on the match columns.
GetOrCreateSelect(p, res) ==
    LET call == CallOf(proc[p])
        st == Failed(proc[p], res, "select", call.table)
        data == SelectEq(db, call.table, call.item_data, call.match_columns)
    IN
    /\ proc[p].pc = "select"
    /\ MayAnswer(res)
    /\ UNCHANGED db
    /\ CountFailure(res)
    /\ IF res = "exc" THEN AfterGetOrCreate(p, st, 0)
       ELSE IF Len(data) > 0
       THEN AfterGetOrCreate(p, [st EXCEPT !.found = Len(data)], data[1].id)
       ELSE /\ proc' = [proc EXCEPT ![p] =
                    [st EXCEPT !.pc = "insert", !.found = 0]]
            /\ UNCHANGED hist

\* Variant: a failing insert is not caught.
GetOrCreateInsert_Raising(p, res) ==
    LET call == CallOf(proc[p])
        st == Failed(proc[p], res, "insert", call.table)
    IN
    /\ proc[p].pc = "insert"
    /\ MayAnswer(res)
    /\ CountFailure(res)
    /\ IF res = "ok"
       THEN /\ db' = Insert(db, call.table, call.item_data)
            /\ AfterGetOrCreate(p, st, NewId(db, call.table))
       ELSE /\ UNCHANGED db
            /\ Finish(p, st, "UnexpectedError", 0)

\* Variant: a failed insert still returns the identifier it asked for.
GetOrCreateInsert_PhantomId(p, res) ==
    LET call == CallOf(proc[p])
        st == Failed(proc[p], res, "insert", call.table)
    IN
    /\ proc[p].pc = "insert"
    /\ MayAnswer(res)
    /\ CountFailure(res)
    /\ db' = IF res = "ok" THEN Insert(db, call.table, call.item_data) ELSE db
    /\ AfterGetOrCreate(p, st, NewId(db, call.table))

\* get_or_create_related_item: the insert when the select found nothing.
GetOrCreateInsert(p, res) ==
    LET call == CallOf(proc[p])
        st == Failed(proc[p], res, "insert", call.table)
    IN
    /\ proc[p].pc = "insert"
    /\ MayAnswer(res)
    /\ CountFailure(res)
    /\ IF res = "ok"
       THEN /\ db' = Insert(db, call.table, call.item_data)
            /\ AfterGetOrCreate(p, st, NewId(db, call.table))
       ELSE /\ UNCHANGED db
            /\ AfterGetOrCreate(p, st, 0)

\* The association row written when get-or-create returned an identifier.
\* Inside the notice block an exception ends the block (line 391); after the
\* main insert it reaches the endpoint's last handler (line 563).
LinkInsert(p, res) ==
    LET st == Failed(proc[p], res, "insert", LinkTable(proc[p].sec)) IN
    /\ proc[p].pc = "link"
    /\ MayAnswer(res)
    /\ CountFailure(res)
    /\ db' = IF res = "ok"
             THEN InsertLink(db, LinkTable(st.sec), LinkRow(st.sec, st))
             ELSE db
    /\ IF res = "exc"
       THEN IF st.sec \in NoticeSections
            THEN Continue(p, st, [sec |-> "main", i |-> 0])
            ELSE Finish(p, st, "UnexpectedError", 0)
       ELSE IF st.sec = "areas"
            THEN NextBarangay(p, st, 1)
            ELSE Continue(p, st, Seek(st.data_dict, st.sec, st.i + 1))

\* Variant: the barangay is looked up by name under any area.
BarangaySelect_AnyArea(p, res) ==
    LET st == Failed(proc[p], res, "select", "barangays")
        item == [name |-> Barangays(st)[st.j].name, area_id |-> st.item_id]
        bgy_check == SelectEq(db, "barangays", item, {"name"})
    IN
    /\ proc[p].pc = "bgy_select"
    /\ MayAnswer(res)
    /\ UNCHANGED db
    /\ CountFailure(res)
    /\ IF res = "exc" THEN Finish(p, st, "UnexpectedError", 0)
       ELSE IF Len(bgy_check) > 0 THEN NextBarangay(p, st, st.j + 1)
       ELSE /\ proc' = [proc EXCEPT ![p] = [st EXCEPT !.pc = "bgy_insert"]]
            /\ UNCHANGED hist

\* Step 7: is the barangay already stored for this area?
BarangaySelect(p, res) ==
    LET st == Failed(proc[p], res, "select", "barangays")
        item == [name |-> Barangays(st)[st.j].name, area_id |-> st.item_id]
        bgy_check == SelectEq(db, "barangays", item, {"name", "area_id"})
    IN
    /\ proc[p].pc = "bgy_select"
    /\ MayAnswer(res)
    /\ UNCHANGED db
    /\ CountFailure(res)
    /\ IF res = "exc" THEN Finish(p, st, "UnexpectedError", 0)
       ELSE IF Len(bgy_check) > 0 THEN NextBarangay(p, st, st.j + 1)
       ELSE /\ proc' = [proc EXCEPT ![p] = [st EXCEPT !.pc = "bgy_insert"]]
            /\ UNCHANGED hist

\* Step 7: the barangay row.
BarangayInsert(p, res) ==
    LET st == Failed(proc[p], res, "insert", "barangays")
        item == [name |-> Barangays(st)[st.j].name, area_id |-> st.item_id]
    IN
    /\ proc[p].pc = "bgy_insert"
    /\ MayAnswer(res)
    /\ CountFailure(res)
    /\ db' = IF res = "ok" THEN Insert(db, "barangays", item) ELSE db
    /\ IF res = "exc" THEN Finish(p, st, "UnexpectedError", 0)
       ELSE NextBarangay(p, st, st.j + 1)

\* Variant: the insert looks for a matching record once more and ends as
\* Duplicate when there is one.
MainInsert_Rechecked(p, res) ==
    LET st == Failed(proc[p], res, "insert", "power_interruption_data")
        parsed == ParseDateTimes(st.data_dict)
        row == NewRecordData(st.data_dict, parsed, st.notice_id)
        record_id == FirstMatch(SameDateRecords(db, parsed.target_date_str), 1,
                                parsed, st.data_dict)
    IN
    /\ proc[p].pc = "main"
    /\ MayAnswer(res)
    /\ CountFailure(res)
    /\ IF res = "ok" /\ record_id # 0
       THEN /\ UNCHANGED db
            /\ Finish(p, st, "Duplicate", record_id)
       ELSE IF res = "ok"
       THEN /\ db' = Insert(db, "power_interruption_data", row)
            /\ Continue(p, [st EXCEPT !.record_id =
                                NewId(db, "power_interruption_data")],
                        Seek(st.data_dict, "areas", 1))
       ELSE /\ UNCHANGED db
            /\ Finish(p, st, "CreationFailed", 0)

\* Step 6: the main power_interruption_data row.
MainInsert(p, res) ==
    LET st == Failed(proc[p], res, "insert", "power_interruption_data")
        parsed == ParseDateTimes(st.data_dict)
        row == NewRecordData(st.data_dict, parsed, st.notice_id)
    IN
    /\ proc[p].pc = "main"
    /\ MayAnswer(res)
    /\ CountFailure(res)
    /\ IF res = "ok"
       THEN /\ db' = Insert(db, "power_interruption_data", row)
            /\ Continue(p, [st EXCEPT !.record_id =
                                NewId(db, "power_interruption_data")],
                        Seek(st.data_dict, "areas", 1))
       ELSE /\ UNCHANGED db
            /\ Finish(p, st, "CreationFailed", 0)

\* A bare call of get_or_create_related_item: a match column without a value
\* returns None before any store call.
GetOrCreateRelatedItem(p, table_name, item_data, match_columns) ==
    LET st == [Idle EXCEPT !.sec = "call", !.pre = db,
                           !.call = [table |-> table_name,
                                     item_data |-> item_data,
                                     match_columns |-> match_columns]]
    IN
    /\ proc[p].pc = "idle"
    /\ Started < MaxRuns
    /\ UNCHANGED <<db, nfail>>
    /\ IF \E c \in match_columns : c \notin DOMAIN item_data
       THEN Finish(p, st, "Returned", 0)
       ELSE /\ proc' = [proc EXCEPT ![p] = [st EXCEPT !.pc = "select"]]
            /\ UNCHANGED hist

(***************************************************************************)
(* The inputs: the extractions handed to the endpoint and the arguments of *)
(* bare get-or-create calls.                                               *)
(***************************************************************************)
T0600H == <<"0", "6", "0", "0", "H">>
T0600 == <<"0", "6", ":", "0", "0">>
T0800h == <<" ", "0", "8", "0", "0", "h">>
T1800H == <<"1", "8", "0", "0", "H">>
T2500H == <<"2", "5", "0", "0", "H">>
TBA == <<"T", "B", "A">>

Area(n, b) == [name |-> n, barangays |-> b]

Base ==
    [is_power_interruption_related |-> TRUE,
     date |-> "2025-06-05", start_time |-> T0600H, end_time |-> T1800H,
     reason |-> "maintenance",
     affected_areas |-> <<>>, affected_customers |-> <<>>,
     specific_activities |-> <<>>, notices |-> <<>>]

Lipa == Area("Lipa", <<>>)
Taal == Area("Taal", <<>>)

Notice(c, d) ==
    [control_no |-> c, date_issued |-> d,
     personnel |-> <<[name |-> "Cruz", position |-> "Engineer"],
                     [name |-> "Reyes", position |-> ""]>>,
     affected_customers |-> <<"Acme Corp">>,
     specific_activities |-> <<"Pole replacement">>]

\* Area lists: none, one, two (with the same barangay name under both, a
\* nameless barangay and a repeated one), the same two in the other order,
\* and one with a nameless area and a repeated area.
AreaLists ==
    {<<>>,
     <<Lipa>>,
     <<Area("Lipa", <<"Poblacion">>), Area("Taal", <<"", "Poblacion", "Poblacion">>)>>,
     <<Taal, Lipa>>,
     <<Area("", <<"Poblacion">>), Lipa, Lipa>>}

\* The same date and times under another spelling, and another time and date.
DuplicateInputs ==
    {[Base EXCEPT !.affected_areas = a] : a \in AreaLists}
    \cup {[Base EXCEPT !.date = "June 5, 2025", !.start_time = T0600,
                       !.reason = "line upgrade", !.affected_areas = a] :
            a \in {<<Lipa>>, <<Taal, Lipa>>}}
    \cup {[Base EXCEPT !.start_time = T0800h, !.affected_areas = <<Lipa>>],
          [Base EXCEPT !.date = "2025-06-06", !.affected_areas = <<Lipa>>,
                       !.notices = <<[Notice("N-001", "2025-06-05") EXCEPT
                                         !.personnel = <<>>,
                                         !.specific_activities = <<>>]>>]}

\* A missing or unparseable date or time.
UnparseableInputs ==
    {[Base EXCEPT !.date = "next week"],
     [Base EXCEPT !.start_time = <<>>],
     [Base EXCEPT !.start_time = TBA],
     [Base EXCEPT !.end_time = T2500H]}

\* Top-level customers and activities, and notices; the second names the
\* same customer and activity in its notice and at the top level.
EnrichedInputs ==
    {[Base EXCEPT !.affected_customers = <<"Acme Corp", "", "Acme Corp">>,
                  !.specific_activities = <<"Pole replacement">>],
     [Base EXCEPT !.notices = <<Notice("N-001", "June 5, 2025")>>,
                  !.affected_areas = <<Taal>>,
                  !.affected_customers = <<"Acme Corp">>,
                  !.specific_activities = <<"Pole replacement">>],
     [Base EXCEPT !.notices = <<Notice("N-001", "next week")>>],
     [Base EXCEPT !.notices = <<Notice("", "June 5, 2025")>>],
     [Base EXCEPT !.notices = <<Notice("N-002", "")>>]}

RelatedInputs == DuplicateInputs \cup UnparseableInputs \cup EnrichedInputs

Extractions ==
    RelatedInputs
        \cup {[Base EXCEPT !.is_power_interruption_related = FALSE,
                           !.affected_areas = <<Lipa>>,
                           !.notices = <<Notice("N-001", "June 5, 2025")>>]}

\* The arguments of the bare get-or-create calls; the last item lacks a
\* match column.
BareCalls ==
    {[table |-> t, item_data |-> [name |-> n], match_columns |-> {"name"}] :
        t \in {"affected_areas", "affected_customers"},
        n \in {"Lipa", "Acme Corp"}}
    \cup {[table |-> "personnel", item_data |-> item,
           match_columns |-> {"name", "position"}] :
        item \in {[name |-> "Cruz", position |-> "Engineer"],
                  [name |-> "Cruz", position |-> "Lineman"],
                  [position |-> "Engineer"]}}

\* A store that already holds one record, as the reconciliation of an 08:00
\* interruption in Taal leaves it.
SeededStore ==
    [EmptyStore EXCEPT
        !["power_interruption_data"] =
            <<[id |-> 1, reason |-> "maintenance", date |-> "2025-06-05",
               start_time |-> <<"2025-06-05", "T", 8, 0>>,
               end_time |-> <<"2025-06-05", "T", 18, 0>>,
               notice_id |-> 0]>>,
        !["affected_areas"] = <<[id |-> 1, name |-> "Taal"]>>,
        !["data_areas"] = <<[data_id |-> 1, area_id |-> 1]>>]

InitialStores == {EmptyStore, SeededStore}

(***************************************************************************)
(* Specifications.                                                         *)
(***************************************************************************)
Init ==
    /\ db \in InitialStores
    /\ proc = [p \in Procs |-> Idle]
    /\ hist = <<>>
    /\ nfail = 0

\* The caller of the runs that do not overlap.
Caller == "p1"

AdminStep(p) ==
    \/ \E res \in SelectResults : ExistenceCheck(p, res)
    \/ \E res \in InsertResults : NoticeInsert(p, res)
    \/ \E res \in InsertResults : MainInsert(p, res)
    \/ \E res \in InsertResults : LinkInsert(p, res)
    \/ \E res \in SelectResults : BarangaySelect(p, res)
    \/ \E res \in InsertResults : BarangayInsert(p, res)

GetOrCreateStep(p) ==
    \/ \E res \in SelectResults : GetOrCreateSelect(p, res)
    \/ \E res \in InsertResults : GetOrCreateInsert(p, res)

BareCall(p) ==
    \E c \in BareCalls :
        GetOrCreateRelatedItem(p, c.table, c.item_data, c.match_columns)

\* Reconciliations one after the other.
Next ==
    \/ \E d \in Extractions : NoOverlap /\ Admin(Caller, d)
    \/ \E p \in Procs : AdminStep(p) \/ GetOrCreateStep(p)

Spec == Init /\ [][Next]_vars

\* Bare get-or-create calls one after the other.
NextGetOrCreate ==
    \/ NoOverlap /\ BareCall(Caller)
    \/ \E p \in Procs : GetOrCreateStep(p)

SpecGetOrCreate == Init /\ [][NextGetOrCreate]_vars

\* Bare get-or-create calls that may overlap.
NextGetOrCreateRace == \E p \in Procs : BareCall(p) \/ GetOrCreateStep(p)

SpecGetOrCreateRace == Init /\ [][NextGetOrCreateRace]_vars

\* The extractions of overlapping reconciliations: one interruption under two
\* spellings, once with a barangay and once with a short notice.
RaceExtractions ==
    {[Base EXCEPT !.affected_areas = <<Area("Lipa", <<"Poblacion">>)>>],
     [Base EXCEPT !.date = "June 5, 2025", !.start_time = T0600,
                  !.reason = "line upgrade", !.affected_areas = <<Lipa>>,
                  !.notices = <<[Notice("N-001", "June 5, 2025") EXCEPT
                                    !.personnel = <<>>,
                                    !.specific_activities = <<>>]>>]}

\* Reconciliations that may overlap: each request is handled on its own, with
\* nothing held between its store calls.
NextRace ==
    \/ \E p \in Procs : \E d \in RaceExtractions : Admin(p, d)
    \/ \E p \in Procs : AdminStep(p) \/ GetOrCreateStep(p)

SpecRace == Init /\ [][NextRace]_vars

\* Reconciliations and bare get-or-create calls, one after the other.
NextCalls ==
    \/ Next
    \/ NoOverlap /\ BareCall(Caller)

SpecCalls == Init /\ [][NextCalls]_vars

(***************************************************************************)
(* The post diff of ai/utils.py.  A Python value carries its type; a dict  *)
(* is a record whose domain holds the keys that are present.  Texts and    *)
(* links are sequences of characters.                                      *)
(***************************************************************************)
MaxPosts == 2         \* posts in one scrape result

PyNone == [type |-> "NoneType"]
PyList(items) == [type |-> "list", items |-> items]

\* dict.get(key, default)
get(d, key, default) == IF key \in DOMAIN d THEN d[key] ELSE default

\* ord() of the characters of the model's alphabet.
ord(c) == CASE c = "a" -> 97 [] c = "b" -> 98 [] c = "|" -> 124

\* str < str: lexicographic by code point.
RECURSIVE StrLess(_, _)
StrLess(s, t) ==
    IF s = <<>> THEN t # <<>>
    ELSE IF t = <<>> THEN FALSE
    ELSE IF Head(s) = Head(t) THEN StrLess(Tail(s), Tail(t))
    ELSE ord(Head(s)) < ord(Head(t))

RECURSIVE InsertSorted(_, _)
InsertSorted(x, l) ==
    IF l = <<>> THEN <<x>>
    ELSE IF StrLess(Head(l), x) THEN <<Head(l)>> \o InsertSorted(x, Tail(l))
    ELSE <<x>> \o l

\* sorted(list of str): duplicates are kept.
RECURSIVE sorted(_)
sorted(l) == IF l = <<>> THEN <<>> ELSE InsertSorted(Head(l), sorted(Tail(l)))

\* sep.join(list of str)
RECURSIVE join(_, _)
join(sep, l) ==
    IF l = <<>> THEN <<>>
    ELSE IF Len(l) = 1 THEN l[1]
    ELSE l[1] \o sep \o join(sep, Tail(l))

\* hashlib.sha256(content).hexdigest(), taken as collision-free: the digest
\* is told apart by the content it was computed from.
sha256(content) == [hexdigest |-> content]

\* Variant: the timestamp is hashed too.
generate_post_hash_WithTimestamp(post) ==
    sha256(<<"text:">> \o get(post, "text", <<>>) \o <<"|", "|", "|", "images:">>
            \o join(<<"|">>, sorted(get(post, "img_links", <<>>)))
            \o <<get(post, "timestamp", "")>>)

generate_post_hash(post) ==
    LET text_content == get(post, "text", <<>>)
        img_links == sorted(get(post, "img_links", <<>>))
        combined_content ==
            <<"text:">> \o text_content \o <<"|", "|", "|", "images:">>
                \o join(<<"|">>, img_links)
    IN  sha256(combined_content)

\* Variant: only the first old post is hashed.
OldPostHashes_FirstOnly(old_posts) ==
    {generate_post_hash(old_posts[k]) :
        k \in {n \in 1..Len(old_posts) : n = 1 /\ old_posts[n].type = "dict"}}

\* Step 1 of find_new_posts: the hashes of the dict items of old.
OldPostHashes(old_posts) ==
    {generate_post_hash(old_posts[k]) :
        k \in {n \in 1..Len(old_posts) : old_posts[n].type = "dict"}}

\* Variant: a post that was already appended is not appended again.
RECURSIVE IdentifiedNewPosts_Unique(_, _)
IdentifiedNewPosts_Unique(new_posts, old_post_hashes) ==
    IF new_posts = <<>> THEN <<>>
    ELSE LET n == Len(new_posts)
             post == new_posts[n]
             identified_new_posts ==
                 IdentifiedNewPosts_Unique(SubSeq(new_posts, 1, n - 1),
                                           old_post_hashes)
         IN  IF /\ post.type = "dict"
                /\ generate_post_hash(post) \notin old_post_hashes
                /\ \A k \in 1..Len(identified_new_posts) :
                        identified_new_posts[k] # post
             THEN Append(identified_new_posts, post)
             ELSE identified_new_posts

\* Step 2 of find_new_posts: the loop over new, appending a copy of every
\* dict item whose hash is not among the old ones.
RECURSIVE IdentifiedNewPosts(_, _)
IdentifiedNewPosts(new_posts, old_post_hashes) ==
    IF new_posts = <<>> THEN <<>>
    ELSE LET n == Len(new_posts)
             post == new_posts[n]
             identified_new_posts ==
                 IdentifiedNewPosts(SubSeq(new_posts, 1, n - 1), old_post_hashes)
         IN  IF /\ post.type = "dict"
                /\ generate_post_hash(post) \notin old_post_hashes
             THEN Append(identified_new_posts, post)
             ELSE identified_new_posts

\* Variant: invalid input gives the empty list.
find_new_posts_EmptyOnInvalid(old_data, new_data) ==
    IF old_data.type # "dict" \/ new_data.type # "dict" THEN PyList(<<>>)
    ELSE LET old_posts == get(old_data, "posts", PyList(<<>>))
             new_posts == get(new_data, "posts", PyList(<<>>))
         IN  IF old_posts.type # "list" \/ new_posts.type # "list"
             THEN PyList(<<>>)
             ELSE PyList(IdentifiedNewPosts(new_posts.items,
                                            OldPostHashes(old_posts.items)))

\* find_new_posts: None for input that is no dict or whose 'posts' is no
\* list; otherwise the new posts as a list.
find_new_posts(old_data, new_data) ==
    IF old_data.type # "dict" \/ new_data.type # "dict" THEN PyNone
    ELSE LET old_posts == get(old_data, "posts", PyList(<<>>))
             new_posts == get(new_data, "posts", PyList(<<>>))
         IN  IF old_posts.type # "list" \/ new_posts.type # "list" THEN PyNone
             ELSE PyList(IdentifiedNewPosts(new_posts.items,
                                            OldPostHashes(old_posts.items)))

\* Image links and the lists of them: none, one, a repeated one, two in both
\* orders, and one link that holds the separator.
LinkA == <<"a">>
LinkB == <<"b">>
LinkAB == <<"a", "|", "b">>

LinkLists ==
    {<<>>, <<LinkA>>, <<LinkA, LinkA>>, <<LinkA, LinkB>>, <<LinkB, LinkA>>,
     <<LinkAB>>}

\* Posts: without text, with the empty text and with a text; two timestamps.
HashPosts ==
    {[type |-> "dict", img_links |-> l, timestamp |-> t] :
        l \in LinkLists, t \in {"4d", "5d"}}
    \cup {[type |-> "dict", text |-> x, img_links |-> l, timestamp |-> t] :
            x \in {<<>>, <<"a">>}, l \in LinkLists, t \in {"4d", "5d"}}

PostA ==
    [type |-> "dict", text |-> <<"a">>, img_links |-> <<LinkA, LinkB>>,
     timestamp |-> "4d"]
PostA2 == [PostA EXCEPT !.img_links = <<LinkB, LinkA>>, !.timestamp = "5d"]
PostB == [type |-> "dict", text |-> <<"b">>, img_links |-> <<>>, timestamp |-> "14h"]
PostC == [type |-> "dict", img_links |-> <<LinkA>>]
NotAPost == [type |-> "str"]

PostLists == UNION {[1..n -> {PostA, PostA2, PostB, PostC, NotAPost}] : n \in 0..MaxPosts}

\* Scrape results: dicts with a list of posts, a dict without 'posts', a dict
\* whose 'posts' is None, and values that are no dict (bare lists of posts).
ScrapeData ==
    {[type |-> "dict", posts |-> PyList(l)] : l \in PostLists}
        \cup {[type |-> "dict"], [type |-> "dict", posts |-> PyNone],
              PyList(<<>>), PyList(<<PostA>>)}

GeneratePostHash(post) ==
    /\ Started < MaxRuns
    /\ hist' = Append(hist, [post |-> post, digest |-> generate_post_hash(post)])
    /\ UNCHANGED <<db, proc, nfail>>

FindNewPosts(old_data, new_data) ==
    /\ hist = <<>>
    /\ hist' = <<[old_data |-> old_data, new_data |-> new_data,
                  result |-> find_new_posts(old_data, new_data)]>>
    /\ UNCHANGED <<db, proc, nfail>>

InitUtils == Init /\ db = EmptyStore

NextHash == \E post \in HashPosts : GeneratePostHash(post)

SpecHash == InitUtils /\ [][NextHash]_vars

NextDiff == \E old_data, new_data \in ScrapeData : FindNewPosts(old_data, new_data)

SpecDiff == InitUtils /\ [][NextDiff]_vars

(***************************************************************************)
(* The time preprocessing of step 3 on its own: clean_time_string and the  *)
(* parse of its result, over every string of up to MaxTimeLen characters.  *)
(***************************************************************************)
MaxTimeLen == 6       \* characters in a raw time string

TimeChars == {"0", "2", "6", "H", "h", ":", " "}

TimeStrings == UNION {[1..n -> TimeChars] : n \in 0..MaxTimeLen}

\* Lines 119-131 for one raw time: the cleaned string, its parse, and the
\* datetime on the record's date when it parses.
CleanTimeString(time_str) ==
    LET cleaned == clean_time_string(time_str)
        parsed == ParseTime(cleaned)
    IN
    /\ hist = <<>>
    /\ hist' = <<[time_str |-> time_str, cleaned |-> cleaned, parsed |-> parsed,
                  full |-> IF parsed.ok
                           THEN combine(ParseDate(Base.date), parsed)
                           ELSE Fail]>>
    /\ UNCHANGED <<db, proc, nfail>>

InitClean == Init /\ db = EmptyStore

\* One raw time per behaviour.
RawTimes == IF hist = <<>> THEN TimeStrings ELSE {}

NextClean == \E time_str \in RawTimes : CleanTimeString(time_str)

SpecClean == InitClean /\ [][NextClean]_vars

(***************************************************************************)
(* The scraper router (routers/scraper.py, scraper/scrape_utils.py).  Its  *)
(* state is held in module globals: here db is the record of those globals *)
(* (request_timestamps, active_scraping_tasks) and of the clock reading    *)
(* time.time() returns, in whole seconds; proc holds the locals of the     *)
(* threads that run the synchronous endpoint.                              *)
(***************************************************************************)
RATE_LIMIT_WINDOW == 3600
MAX_REQUESTS_PER_WINDOW == 10

MaxCalls == 3         \* check_rate_limit calls started in one behaviour

\* request.client.host of the callers, and the clock readings.
Clients == {"10.0.0.1", "10.0.0.2"}
Times == {0, 1800, 3600}

\* The timestamps nine admitted calls of one client leave behind.
NineAdmitted == [k \in 1..(MAX_REQUESTS_PER_WINDOW - 1) |-> <<"10.0.0.1", 0>>]

Globals(timestamps) ==
    [request_timestamps |-> timestamps, active_scraping_tasks |-> <<>>,
     time |-> 0]

\* A thread of the pool that is running no call.
NoThread ==
    [pc |-> "idle", client_ip |-> "", current_time |-> 0,
     kept |-> <<>>, ip_requests |-> 0]

\* The calls that left the timestamps the behaviour starts with.
EarlierCalls(timestamps) ==
    [k \in 1..Len(timestamps) |->
        [client_ip |-> timestamps[k][1], current_time |-> timestamps[k][2],
         result |-> TRUE, earlier |-> TRUE]]

CallsStarted ==
    Cardinality({k \in DOMAIN hist : ~hist[k].earlier})
        + Cardinality({q \in Procs : proc[q].pc # "idle"})

\* time.time() moves on.
Tick(t) ==
    /\ t > db.time
    /\ db' = [db EXCEPT !.time = t]
    /\ UNCHANGED <<proc, hist, nfail>>

\* check_rate_limit, lines 12-13: the client and the time of the call.
CheckRateLimit(p, client_ip) ==
    /\ proc[p].pc = "idle"
    /\ CallsStarted < MaxCalls
    /\ proc' = [proc EXCEPT ![p] =
            [NoThread EXCEPT !.pc = "prune", !.client_ip = client_ip,
                             !.current_time = db.time]]
    /\ UNCHANGED <<db, hist, nfail>>

InWindow(e, current_time) == current_time - e[2] < RATE_LIMIT_WINDOW

\* Lines 17-21, the list comprehension: the entries of the global list that
\* are still in the window.
PruneRead(p) ==
    /\ proc[p].pc = "prune"
    /\ proc' = [proc EXCEPT ![p] =
            [@ EXCEPT !.pc = "assign",
                      !.kept = SelectSeq(db.request_timestamps,
                                LAMBDA e : InWindow(e, proc[p].current_time))]]
    /\ UNCHANGED <<db, hist, nfail>>

\* Line 17, the assignment: the global list is replaced by the new one.
PruneAssign(p) ==
    /\ proc[p].pc = "assign"
    /\ db' = [db EXCEPT !.request_timestamps = proc[p].kept]
    /\ proc' = [proc EXCEPT ![p] = [@ EXCEPT !.pc = "count", !.kept = <<>>]]
    /\ UNCHANGED <<hist, nfail>>

\* Variant: the entries of every client are counted.
CountRequests_AnyClient(timestamps, client_ip) == Len(timestamps)

\* Line 24: sum(1 for ip, _ in request_timestamps if ip == client_ip)
CountRequests(timestamps, client_ip) ==
    Len(SelectSeq(timestamps, LAMBDA e : e[1] = client_ip))

Count(p) ==
    /\ proc[p].pc = "count"
    /\ proc' = [proc EXCEPT ![p] =
            [@ EXCEPT !.pc = "limit",
                      !.ip_requests = CountRequests(db.request_timestamps,
                                                    proc[p].client_ip)]]
    /\ UNCHANGED <<db, hist, nfail>>

\* Lines 27-32: False over the limit, else the timestamp is appended.
Limit(p) ==
    LET st == proc[p]
        result == st.ip_requests < MAX_REQUESTS_PER_WINDOW
    IN
    /\ st.pc = "limit"
    /\ db' = IF result
             THEN [db EXCEPT !.request_timestamps =
                        Append(@, <<st.client_ip, st.current_time>>)]
             ELSE db
    /\ hist' = Append(hist, [client_ip |-> st.client_ip,
                             current_time |-> st.current_time,
                             result |-> result, earlier |-> FALSE])
    /\ proc' = [proc EXCEPT ![p] = NoThread]
    /\ UNCHANGED nfail

RateLimitStep(p) ==
    \/ PruneRead(p)
    \/ PruneAssign(p)
    \/ Count(p)
    \/ Limit(p)

InitRateLimit ==
    /\ \E timestamps \in {<<>>, NineAdmitted} :
            /\ db = Globals(timestamps)
            /\ hist = EarlierCalls(timestamps)
    /\ proc = [p \in Procs |-> NoThread]
    /\ nfail = 0

\* Calls that do not overlap.
NextRateLimit ==
    \/ \E t \in Times : Tick(t)
    \/ \E client_ip \in Clients : NoOverlap /\ CheckRateLimit(Caller, client_ip)
    \/ RateLimitStep(Caller)

SpecRateLimit == InitRateLimit /\ [][NextRateLimit]_vars

\* Calls in the threads of the pool, their steps interleaving.
NextRateLimitRace ==
    \/ \E t \in Times : Tick(t)
    \/ \E p \in Procs : \E client_ip \in Clients : CheckRateLimit(p, client_ip)
    \/ \E p \in Procs : RateLimitStep(p)

SpecRateLimitRace == InitRateLimit /\ [][NextRateLimitRace]_vars

(***************************************************************************)
(* The scraping tasks of routers/scraper.py: the registry                  *)
(* active_scraping_tasks, the POST, status and DELETE handlers, and the    *)
(* background jobs (scrape_task), which run in pool threads after the      *)
(* response of the POST that queued them.  A handler is one step; a job    *)
(* takes one step per write to the registry.  Here proc holds the jobs.    *)
(***************************************************************************)
MaxRequests == 3      \* requests (POST, GET status, DELETE) in one behaviour

HTTP_202_ACCEPTED == 202
HTTP_204_NO_CONTENT == 204
HTTP_400_BAD_REQUEST == 400
HTTP_404_NOT_FOUND == 404
HTTP_429_TOO_MANY_REQUESTS == 429

\* The URLs of the requests: two pages and the placeholder the validation
\* rejects.
HttpUrls == {"http://fb.example/a", "http://fb.example/b"}

Urls == HttpUrls \cup {"string"}

\* Lines 168-172; startswith("http") is membership in HttpUrls.
ValidUrl(url) == url # "" /\ url # "string" /\ url \in HttpUrls

\* hash(url) % 10000, on the URLs of the model.
UrlHash(url) ==
    CASE url = "http://fb.example/a" -> 4711
      [] url = "http://fb.example/b" -> 815
      [] OTHER -> 0

\* f"scrape_{int(time.time())}_{hash(url) % 10000}"
TaskId(time, url) == <<time, UrlHash(url)>>

TaskTimes == {0, 1800}

TaskIds == {TaskId(t, u) : t \in TaskTimes, u \in HttpUrls}

\* A job slot of the pool with no job in it.
NoJob == [pc |-> "idle", task_id |-> <<>>, url |-> ""]

Registry == db.active_scraping_tasks

\* dict item assignment and deletion.
SetItem(d, k, v) == [x \in DOMAIN d \cup {k} |-> IF x = k THEN v ELSE d[x]]
DelItem(d, k) == [x \in DOMAIN d \ {k} |-> d[x]]

\* The entry a POST stores, and the entries a job replaces it with; the
\* latter carry no "url" key.
NewTask(url) == [status |-> "in_progress", url |-> url]
EndedTask(status) == [status |-> status, url |-> ""]

\* check_rate_limit as the POST handler runs it, without interleaving: the
\* pruned list, and whether the call is admitted.
Pruned(timestamps, current_time) ==
    SelectSeq(timestamps, LAMBDA e : InWindow(e, current_time))

Admitted(timestamps, client_ip, current_time) ==
    CountRequests(Pruned(timestamps, current_time), client_ip)
        < MAX_REQUESTS_PER_WINDOW

AfterRateLimit(timestamps, client_ip, current_time) ==
    IF Admitted(timestamps, client_ip, current_time)
    THEN Append(Pruned(timestamps, current_time), <<client_ip, current_time>>)
    ELSE Pruned(timestamps, current_time)

\* The jobs that have been queued and have not ended, by task id and by URL.
Running(task_id) ==
    \E q \in Procs : proc[q].pc # "idle" /\ proc[q].task_id = task_id

LiveFor(url) ==
    {proc[q].task_id : q \in {r \in Procs : proc[r].pc # "idle" /\ proc[r].url = url}}

\* Lines 182-186: the tasks of the URL whose status is "in_progress".
ActiveFor(tasks, url) ==
    {id \in DOMAIN tasks : tasks[id].url = url /\ tasks[id].status = "in_progress"}

Respond(entry) ==
    /\ Len(hist) < MaxRequests
    /\ hist' = Append(hist, entry)
    /\ UNCHANGED nfail

\* POST /scrape/facebook from client_ip for url; the job goes to slot q.
ScrapeFacebook(q, client_ip, url) ==
    LET timestamps == AfterRateLimit(db.request_timestamps, client_ip, db.time)
        limited == [db EXCEPT !.request_timestamps = timestamps]
        task_id == TaskId(db.time, url)
        reply == [op |-> "post", url |-> url, live |-> LiveFor(url),
                  code |-> 0, task_id |-> <<>>, started |-> FALSE]
    IN
    /\ proc[q].pc = "idle"
    /\ IF ~Admitted(db.request_timestamps, client_ip, db.time)
       THEN /\ db' = limited
            /\ UNCHANGED proc
            /\ Respond([reply EXCEPT !.code = HTTP_429_TOO_MANY_REQUESTS])
       ELSE IF ~ValidUrl(url)
       THEN /\ db' = limited
            /\ UNCHANGED proc
            /\ Respond([reply EXCEPT !.code = HTTP_400_BAD_REQUEST])
       ELSE IF ActiveFor(Registry, url) # {}
       THEN /\ db' = limited
            /\ UNCHANGED proc
            /\ \E existing_id \in ActiveFor(Registry, url) :
                    Respond([reply EXCEPT !.code = HTTP_202_ACCEPTED,
                                          !.task_id = existing_id])
       ELSE /\ db' = [limited EXCEPT !.active_scraping_tasks =
                            SetItem(@, task_id, NewTask(url))]
            /\ proc' = [proc EXCEPT ![q] =
                            [pc |-> "queued", task_id |-> task_id, url |-> url]]
            /\ Respond([reply EXCEPT !.code = HTTP_202_ACCEPTED,
                                      !.task_id = task_id, !.started = TRUE])

\* scrape_task, lines 47-53 and 80-86: .update() of the task's entry; a
\* missing entry raises KeyError, which the handler at 135 turns into a
\* "failed" entry.
JobUpdate(q, from, status) ==
    LET task_id == proc[q].task_id IN
    /\ proc[q].pc = from
    /\ IF task_id \in DOMAIN Registry
       THEN /\ db' = [db EXCEPT !.active_scraping_tasks =
                        [@ EXCEPT ![task_id] = [@ EXCEPT !.status = status]]]
            /\ proc' = [proc EXCEPT ![q] = [@ EXCEPT !.pc = status]]
       ELSE /\ db' = [db EXCEPT !.active_scraping_tasks =
                        SetItem(@, task_id, EndedTask("failed"))]
            /\ proc' = [proc EXCEPT ![q] = NoJob]
    /\ UNCHANGED <<hist, nfail>>

\* How scrape_facebook_page ends: success, a result without success, or an
\* exception.
ScrapeOutcomes == {"success", "no success", "raises"}

\* Lines 88-144: the scraper returns or raises and the entry is replaced.
JobEnd(q, outcome) ==
    /\ proc[q].pc = "scraping"
    /\ db' = [db EXCEPT !.active_scraping_tasks =
                SetItem(@, proc[q].task_id,
                        EndedTask(IF outcome = "success"
                                  THEN "completed" ELSE "failed"))]
    /\ proc' = [proc EXCEPT ![q] = NoJob]
    /\ UNCHANGED <<hist, nfail>>

JobStep(q) ==
    \/ JobUpdate(q, "queued", "processing")
    \/ JobUpdate(q, "processing", "scraping")
    \/ \E outcome \in ScrapeOutcomes : JobEnd(q, outcome)

\* GET /scrape/status/{task_id}
GetScrapeStatus(task_id) ==
    /\ UNCHANGED <<db, proc>>
    /\ Respond([op |-> "status", task_id |-> task_id,
                code |-> IF task_id \in DOMAIN Registry
                         THEN HTTP_200_OK ELSE HTTP_404_NOT_FOUND,
                status |-> IF task_id \in DOMAIN Registry
                           THEN Registry[task_id].status ELSE ""])

\* Line 304: a task is deleted unless its status is "in_progress".
Deletable(entry) == entry.status # "in_progress"

\* DELETE /scrape/tasks/{task_id}
DeleteTask(task_id) ==
    LET reply == [op |-> "delete", task_id |-> task_id,
                  running |-> Running(task_id),
                  known |-> task_id \in DOMAIN Registry,
                  status |-> IF task_id \in DOMAIN Registry
                             THEN Registry[task_id].status ELSE "",
                  code |-> 0]
    IN
    /\ UNCHANGED proc
    /\ IF task_id \notin DOMAIN Registry
       THEN /\ UNCHANGED db
            /\ Respond([reply EXCEPT !.code = HTTP_404_NOT_FOUND])
       ELSE IF ~Deletable(Registry[task_id])
       THEN /\ UNCHANGED db
            /\ Respond([reply EXCEPT !.code = HTTP_400_BAD_REQUEST])
       ELSE /\ db' = [db EXCEPT !.active_scraping_tasks = DelItem(@, task_id)]
            /\ Respond([reply EXCEPT !.code = HTTP_204_NO_CONTENT])

InitTasks ==
    /\ \E timestamps \in {<<>>, NineAdmitted} : db = Globals(timestamps)
    /\ proc = [p \in Procs |-> NoJob]
    /\ hist = <<>>
    /\ nfail = 0

NextTasks ==
    \/ \E t \in TaskTimes : Tick(t)
    \/ \E q \in Procs : \E url \in Urls : ScrapeFacebook(q, "10.0.0.1", url)
    \/ \E q \in Procs : JobStep(q)
    \/ \E task_id \in TaskIds : GetScrapeStatus(task_id)
    \/ \E task_id \in TaskIds : DeleteTask(task_id)

SpecTasks == InitTasks /\ [][NextTasks]_vars

(***************************************************************************)
(* Vocabulary of the properties.                                           *)
(***************************************************************************)
Range(seq) == {seq[k] : k \in 1..Len(seq)}

IsRun(h) == h.call = NoCall
IsCall(h) == h.call # NoCall

Related(h) == IsRun(h) /\ h.data_dict.is_power_interruption_related

\* A run whose extraction is interruption-related and parses.
Keyed(h) == Related(h) /\ ParseDateTimes(h.data_dict).ok

Clean(h) == h.fails = {}

DataRows(store) == Range(store["power_interruption_data"])

\* The names of the areas linked to record id through data_areas.
LinkedAreaNames(store, id) ==
    {store["affected_areas"][l.area_id].name :
        l \in {x \in Range(store["data_areas"]) : x.data_id = id}}

\* The (date, start, end, area-name set) of a stored record / of an extraction.
RowKey(store, r) ==
    <<r.date, r.start_time, r.end_time, LinkedAreaNames(store, r.id)>>

TimesOf(d) ==
    LET q == ParseDateTimes(d) IN
    <<q.target_date_str, isoformat(q.full_start_datetime),
      isoformat(q.full_end_datetime)>>

NameSetOf(d) == {a.name : a \in Range(d.affected_areas)} \ {""}

KeyOf(d) == TimesOf(d) \o <<NameSetOf(d)>>

RowsOfDate(store, d) ==
    {r \in DataRows(store) : r.date = ParseDateTimes(d).target_date_str}

Grew(h, t) == Len(h.post[t]) > Len(h.pre[t])

\* The stored records that equal the extraction in date, start_time, end_time
\* and set of area names.
MatchingRecords(store, d) ==
    {r \in DataRows(store) : RowKey(store, r) = KeyOf(d)}

\* C1: two extractions with the same parsed date, start, end and area-name
\* set, reconciled one after the other with every store call succeeding,
\* against a store without a record of that date: the first is Created, the
\* second is Duplicate with the first one's id, and one row of that date
\* exists afterwards (one more row than before).
C1_DuplicateSuppression ==
    \A k \in 1..(Len(hist) - 1) :
        LET a == hist[k]
            b == hist[k + 1]
        IN  (/\ Keyed(a) /\ Keyed(b)
             /\ KeyOf(a.data_dict) = KeyOf(b.data_dict)
             /\ Clean(a) /\ Clean(b)
             /\ RowsOfDate(a.pre, a.data_dict) = {})
            => /\ a.status = "Created"
               /\ b.status = "Duplicate"
               /\ b.id = a.id
               /\ Cardinality(RowsOfDate(b.post, b.data_dict)) = 1
               /\ Len(b.post["power_interruption_data"])
                    = Len(a.pre["power_interruption_data"]) + 1

C1_Witness ==
    /\ Len(hist) = 2
    /\ Keyed(hist[1]) /\ Keyed(hist[2])
    /\ KeyOf(hist[1].data_dict) = KeyOf(hist[2].data_dict)
    /\ Clean(hist[1]) /\ Clean(hist[2])
    /\ RowsOfDate(hist[1].pre, hist[1].data_dict) = {}
    /\ hist[1].data_dict.reason # hist[2].data_dict.reason
    /\ hist[1].data_dict.start_time # hist[2].data_dict.start_time
    /\ hist[1].data_dict.affected_areas # hist[2].data_dict.affected_areas
    /\ Cardinality(NameSetOf(hist[1].data_dict)) = 2
    /\ hist[2].status = "Duplicate"

\* C2: no two power_interruption_data rows have the same date, start_time,
\* end_time and set of linked area names, in any state that reconciliations
\* which do not overlap leave behind, failing store calls included.
C2_CanonicalRecord ==
    NoOverlap =>
        \A r1, r2 \in DataRows(db) :
            r1.id # r2.id => RowKey(db, r1) # RowKey(db, r2)

\* C3: two extractions with the same date, start and end but different
\* area-name sets, reconciled one after the other with every store call
\* succeeding, against a store in which no record equals either of them, are
\* both Created, as two more rows of that date with distinct ids.
C3_AreaSetMismatch ==
    \A k \in 1..(Len(hist) - 1) :
        LET a == hist[k]
            b == hist[k + 1]
        IN  (/\ Keyed(a) /\ Keyed(b)
             /\ TimesOf(a.data_dict) = TimesOf(b.data_dict)
             /\ NameSetOf(a.data_dict) # NameSetOf(b.data_dict)
             /\ Clean(a) /\ Clean(b)
             /\ MatchingRecords(a.pre, a.data_dict) = {}
             /\ MatchingRecords(a.pre, b.data_dict) = {})
            => /\ a.status = "Created" /\ b.status = "Created"
               /\ a.id # b.id
               /\ {a.id, b.id}
                    \subseteq {r.id : r \in RowsOfDate(b.post, b.data_dict)}
               /\ Len(b.post["power_interruption_data"])
                    = Len(a.pre["power_interruption_data"]) + 2

C3_Witness ==
    /\ Len(hist) = 2
    /\ Keyed(hist[1]) /\ Keyed(hist[2])
    /\ TimesOf(hist[1].data_dict) = TimesOf(hist[2].data_dict)
    /\ NameSetOf(hist[1].data_dict) = {"Lipa"}
    /\ NameSetOf(hist[2].data_dict) = {"Lipa", "Taal"}
    /\ Clean(hist[1]) /\ Clean(hist[2])
    /\ hist[1].pre = SeededStore
    /\ hist[1].status = "Created" /\ hist[2].status = "Created"

\* The bare call h has a value for every match column.
CompleteKey(h) ==
    IsCall(h) /\ h.call.match_columns \subseteq DOMAIN h.call.item_data

SameKeyCall(a, b) ==
    /\ a.call.table = b.call.table
    /\ a.call.match_columns = b.call.match_columns
    /\ \A c \in a.call.match_columns : a.call.item_data[c] = b.call.item_data[c]

MatchingRows(store, call) ==
    {r \in Range(store[call.table]) :
        \A c \in call.match_columns : r[c] = call.item_data[c]}

\* C4: get_or_create calls that do not overlap, with the same table and
\* match-key values and every store call succeeding, on a table that held no
\* matching row at first, all return the same identifier, and the table then
\* holds exactly one row with those values.
C4_GetOrCreateIdempotent ==
    \A j, k \in 1..Len(hist) :
        (/\ j <= k
         /\ CompleteKey(hist[j]) /\ CompleteKey(hist[k])
         /\ SameKeyCall(hist[j], hist[k])
         /\ Clean(hist[j]) /\ Clean(hist[k])
         /\ MatchingRows(hist[j].pre, hist[j].call) = {})
        => /\ hist[j].id # 0
           /\ hist[k].id = hist[j].id
           /\ MatchingRows(hist[k].post, hist[k].call)
                = {r \in Range(hist[k].post[hist[k].call.table]) :
                        r.id = hist[j].id}

C4_Witness ==
    /\ Len(hist) = 2
    /\ CompleteKey(hist[1]) /\ CompleteKey(hist[2])
    /\ SameKeyCall(hist[1], hist[2])
    /\ hist[1].call.table = "personnel"
    /\ Clean(hist[1]) /\ Clean(hist[2])
    /\ MatchingRows(hist[1].pre, hist[1].call) = {}
    /\ hist[2].id = hist[1].id /\ hist[1].id # 0

\* C5: once the main row is inserted, a failing insert of a related entity or
\* link row is reported to the caller as no error, and every remaining
\* related entity of the extraction is still processed.
C5_RelatedFailuresNonFatal ==
    \A h \in Range(hist) :
        (/\ IsRun(h)
         /\ Grew(h, "power_interruption_data")
         /\ h.fails # {})
        => /\ h.status = "Created"
           /\ h.code = HTTP_200_OK
           /\ \A sec \in DataSections :
                \A item \in Range(SecItems(h.data_dict, sec)) :
                    ItemValid(item)
                    => \/ \E r \in Range(h.post[EntityTable(sec)]) :
                            r.name = item.name
                       \/ \E f \in h.fails : f.table = EntityTable(sec)

\* C6: when the insert of the main row fails, the reconciliation ends as
\* CreationFailed with a server error, and every table is as it was before
\* the reconciliation started.
C6_MainFailureCommitsNothing ==
    \A h \in Range(hist) :
        (IsRun(h) /\ h.status = "CreationFailed")
        => /\ h.code \in {HTTP_500_INTERNAL_SERVER_ERROR,
                          HTTP_503_SERVICE_UNAVAILABLE}
           /\ h.post = h.pre

\* The extractions whose date or time is missing or unparseable, also after
\* the HHMMH normalization.
MissingOrUnparseable(d) ==
    \/ d.date \in {"", "next week"}
    \/ d.start_time \in {<<>>, TBA, T2500H}
    \/ d.end_time \in {<<>>, TBA, T2500H}

\* C7: an interruption-related extraction whose date, start_time or end_time
\* is missing or cannot be parsed ends with the 422 client-data error and no
\* row inserted into any table.
C7_ParseFailureWritesNothing ==
    \A h \in Range(hist) :
        (Related(h) /\ MissingOrUnparseable(h.data_dict))
        => /\ h.status = "ParseError"
           /\ h.code = HTTP_422_UNPROCESSABLE_ENTITY
           /\ h.post = h.pre

C7_Witness ==
    \E h \in Range(hist) :
        /\ Related(h)
        /\ h.data_dict.end_time = T2500H
        /\ h.status = "ParseError"
        /\ h.pre = SeededStore

\* C8: an extraction whose is_power_interruption_related flag is false gets
\* the not-relevant outcome, and every table of the store is unchanged.
C8_IrrelevantNoEffect ==
    \A h \in Range(hist) :
        (IsRun(h) /\ ~h.data_dict.is_power_interruption_related)
        => /\ h.status = "Irrelevant"
           /\ h.code = HTTP_200_OK
           /\ h.id = 0
           /\ h.post = h.pre

C8_Witness ==
    \E h \in Range(hist) :
        /\ IsRun(h)
        /\ ~h.data_dict.is_power_interruption_related
        /\ h.data_dict.affected_areas # <<>>
        /\ h.data_dict.notices # <<>>
        /\ h.status = "Irrelevant"
        /\ h.pre # EmptyStore

\* C9: when a stored record of the extraction's date has equal start_time,
\* end_time and area-name set, the reconciliation inserts no row into any
\* table, whatever its reason, customers, activities or notices are, and (the
\* same-date query having answered) ends as Duplicate with the id of a
\* matching record.
C9_DuplicateWritesNothing ==
    \A h \in Range(hist) :
        (Keyed(h) /\ MatchingRecords(h.pre, h.data_dict) # {})
        => /\ h.post = h.pre
           /\ Clean(h) =>
                /\ h.status = "Duplicate"
                /\ h.id \in {r.id : r \in MatchingRecords(h.pre, h.data_dict)}

C9_Witness ==
    \E h \in Range(hist) :
        /\ Keyed(h)
        /\ Cardinality(RowsOfDate(h.pre, h.data_dict)) = 2
        /\ h.status = "Duplicate"
        /\ h.id = 2
        /\ h.data_dict.notices # <<>>
        /\ h.data_dict.affected_customers # <<>>

\* C10: two get_or_create calls with the same table and match-key values,
\* whose selects both ran before either insert (each select found no row) and
\* whose store calls all succeeded, both insert: they return different
\* identifiers and the table holds two rows with those match-key values.
C10_GetOrCreateRace ==
    \A j, k \in 1..Len(hist) :
        (/\ j < k
         /\ CompleteKey(hist[j]) /\ CompleteKey(hist[k])
         /\ SameKeyCall(hist[j], hist[k])
         /\ Clean(hist[j]) /\ Clean(hist[k])
         /\ hist[j].found = 0 /\ hist[k].found = 0)
        => /\ hist[j].id # 0 /\ hist[k].id # 0
           /\ hist[j].id # hist[k].id
           /\ {hist[j].id, hist[k].id}
                \subseteq {r.id : r \in MatchingRows(hist[k].post, hist[k].call)}

C10_Witness ==
    /\ Len(hist) = 2
    /\ CompleteKey(hist[1]) /\ CompleteKey(hist[2])
    /\ SameKeyCall(hist[1], hist[2])
    /\ Clean(hist[1]) /\ Clean(hist[2])
    /\ hist[1].found = 0 /\ hist[2].found = 0
    /\ hist[1].id # hist[2].id
    /\ Cardinality(MatchingRows(db, hist[1].call)) = 2

\* C11: two reconciliations of extractions with the same date, start, end and
\* area-name set, whose same-date queries returned the same rows, none of them
\* a match (so both queries ran before either main insert), and whose store
\* calls all succeeded, both end as Created, and the store then holds two
\* rows with that date, start, end and area-name set.
C11_ReconcilerRace ==
    \A j, k \in 1..Len(hist) :
        LET a == hist[j]
            b == hist[k]
        IN  (/\ j < k
             /\ Keyed(a) /\ Keyed(b)
             /\ KeyOf(a.data_dict) = KeyOf(b.data_dict)
             /\ Clean(a) /\ Clean(b)
             /\ a.seen = b.seen
             /\ FirstMatch(a.seen, 1, ParseDateTimes(a.data_dict), a.data_dict) = 0)
            => /\ a.status = "Created" /\ b.status = "Created"
               /\ a.id # b.id
               /\ \A id \in {a.id, b.id} :
                    \E r \in DataRows(db) :
                        r.id = id /\ RowKey(db, r) = KeyOf(a.data_dict)

C11_Witness ==
    /\ Len(hist) = 2
    /\ Keyed(hist[1]) /\ Keyed(hist[2])
    /\ KeyOf(hist[1].data_dict) = KeyOf(hist[2].data_dict)
    /\ hist[1].data_dict.start_time # hist[2].data_dict.start_time
    /\ Clean(hist[1]) /\ Clean(hist[2])
    /\ hist[1].seen = hist[2].seen /\ hist[1].seen # <<>>
    /\ hist[1].status = "Created" /\ hist[2].status = "Created"
    /\ Cardinality({r \in DataRows(db) :
                        RowKey(db, r) = KeyOf(hist[1].data_dict)}) = 2

\* A scrape result whose 'posts' is a list of dict posts.
WellFormed(d) ==
    /\ d.type = "dict"
    /\ "posts" \in DOMAIN d
    /\ d.posts.type = "list"
    /\ \A k \in 1..Len(d.posts.items) : d.posts.items[k].type = "dict"

TextOf(post) == IF "text" \in DOMAIN post THEN post.text ELSE <<>>

LinkSet(post) == Range(post.img_links)

Fingerprints(posts) == {generate_post_hash(q) : q \in Range(posts)}

\* The posts of a list whose fingerprint is not in H, in the list's order.
RECURSIVE NotIn(_, _)
NotIn(H, posts) ==
    IF posts = <<>> THEN <<>>
    ELSE (IF generate_post_hash(Head(posts)) \in H THEN <<>> ELSE <<Head(posts)>>)
            \o NotIn(H, Tail(posts))

\* C12: for well-formed old and new, find_new_posts returns the posts of new
\* whose fingerprint is not that of any post of old, once per occurrence and
\* in the order of new; no returned post has a fingerprint that occurs in old.
C12_DiffCorrectness ==
    \A h \in Range(hist) :
        (WellFormed(h.old_data) /\ WellFormed(h.new_data))
        => /\ h.result = PyList(NotIn(Fingerprints(h.old_data.posts.items),
                                      h.new_data.posts.items))
           /\ \A q \in Range(h.result.items) :
                generate_post_hash(q) \notin Fingerprints(h.old_data.posts.items)

C12_Witness ==
    \E h \in Range(hist) :
        /\ WellFormed(h.old_data) /\ WellFormed(h.new_data)
        /\ h.old_data.posts.items = <<PostA, PostC>>
        /\ h.new_data.posts.items = <<PostB, PostB>>
        /\ h.result = PyList(<<PostB, PostB>>)

\* C13: find_new_posts(X, X) is the empty list for every well-formed X.
C13_DiffEmptiness ==
    \A h \in Range(hist) :
        (WellFormed(h.old_data) /\ h.new_data = h.old_data)
        => h.result = PyList(<<>>)

C13_Witness ==
    \E h \in Range(hist) :
        /\ h.old_data = [type |-> "dict", posts |-> PyList(<<PostA, PostC>>)]
        /\ h.new_data = h.old_data
        /\ h.result = PyList(<<>>)

\* C14: two posts with the same text (an absent text counting as the empty
\* one) and the same set of image links have the same fingerprint, whatever
\* the order of the links and the other fields are.
C14_FingerprintInvariance ==
    \A j, k \in 1..Len(hist) :
        (/\ TextOf(hist[j].post) = TextOf(hist[k].post)
         /\ LinkSet(hist[j].post) = LinkSet(hist[k].post))
        => hist[j].digest = hist[k].digest

\* C15: two posts that differ in text or in the set of image links have
\* different fingerprints, the hash being collision-free and the links
\* possibly holding the character '|'.
C15_FingerprintSensitivity ==
    \A j, k \in 1..Len(hist) :
        (\/ TextOf(hist[j].post) # TextOf(hist[k].post)
         \/ LinkSet(hist[j].post) # LinkSet(hist[k].post))
        => hist[j].digest # hist[k].digest

Occurrences(seq, x) == Cardinality({k \in 1..Len(seq) : seq[k] = x})

\* Equal text and the same image links up to their order.
SameContent(p, q) ==
    /\ TextOf(p) = TextOf(q)
    /\ \A l \in LinkSet(p) \cup LinkSet(q) :
            Occurrences(p.img_links, l) = Occurrences(q.img_links, l)

\* C16: a post of new that equals a post of old in text and image links, and
\* differs from it at most in timestamp and in the order of the links, is not
\* in the result of find_new_posts.
C16_TimestampOnlyNotNew ==
    \A h \in Range(hist) :
        (WellFormed(h.old_data) /\ WellFormed(h.new_data))
        => \A p \in Range(h.new_data.posts.items) :
                (\E q \in Range(h.old_data.posts.items) : SameContent(p, q))
                => p \notin Range(h.result.items)

C16_Witness ==
    \E h \in Range(hist) :
        /\ h.old_data = [type |-> "dict", posts |-> PyList(<<PostA, PostB>>)]
        /\ h.new_data = [type |-> "dict", posts |-> PyList(<<PostA2, PostC>>)]
        /\ h.result = PyList(<<PostC>>)

\* A value that is no dict, or a dict whose 'posts' is no list.
Malformed(d) ==
    \/ d.type # "dict"
    \/ "posts" \in DOMAIN d /\ d.posts.type # "list"

C18_ErrorSurface ==
    \A h \in Range(hist) :
        (IsRun(h) /\ h.code # HTTP_200_OK)
        => h.status \in {"ParseError", "CreationFailed"}

NoticeRows(store, control_no) ==
    {n \in Range(store["power_interruption_notices"]) : n.control_no = control_no}

RowOf(store, id) == CHOOSE r \in DataRows(store) : r.id = id

\* C19: when two extractions whose first notice carries the same control_no
\* are reconciled one after the other, every store call succeeding, and both
\* end as Created, one power_interruption_notices row with that control_no exists afterwards and
\* both main records reference it.
C19_NoticeReuse ==
    \A k \in 1..(Len(hist) - 1) :
        LET a == hist[k]
            b == hist[k + 1]
        IN  (/\ IsRun(a) /\ IsRun(b)
             /\ a.status = "Created" /\ b.status = "Created"
             /\ Clean(a) /\ Clean(b)
             /\ a.data_dict.notices # <<>> /\ b.data_dict.notices # <<>>
             /\ NoticeReady(a.data_dict) /\ NoticeReady(b.data_dict)
             /\ a.data_dict.notices[1].control_no
                    = b.data_dict.notices[1].control_no)
            => \E n \in Range(b.post["power_interruption_notices"]) :
                    /\ NoticeRows(b.post, a.data_dict.notices[1].control_no) = {n}
                    /\ RowOf(b.post, a.id).notice_id = n.id
                    /\ RowOf(b.post, b.id).notice_id = n.id

\* The first notice lacks control_no or date_issued.
IncompleteNotice(d) ==
    /\ d.notices # <<>>
    /\ d.notices[1].control_no = "" \/ d.notices[1].date_issued = ""

NoticeTables ==
    {"power_interruption_notices", "notice_personnel", "notice_customers",
     "notice_activities"}

\* C20: when the first notice of the extraction lacks control_no or
\* date_issued, the reconciliation writes no power_interruption_notices row
\* and no notice_personnel, notice_customers or notice_activities row, and
\* (no stored record matching, every store call succeeding) the main record
\* is created without a notice_id.
C20_IncompleteNoticeSkipped ==
    \A h \in Range(hist) :
        (Keyed(h) /\ IncompleteNotice(h.data_dict))
        => /\ \A t \in NoticeTables : h.post[t] = h.pre[t]
           /\ (Clean(h) /\ MatchingRecords(h.pre, h.data_dict) = {})
                => /\ h.status = "Created"
                   /\ Grew(h, "power_interruption_data")
                   /\ RowOf(h.post, h.id).notice_id = 0

C20_Witness ==
    \E h \in Range(hist) :
        /\ Keyed(h) /\ IncompleteNotice(h.data_dict)
        /\ h.data_dict.notices[1].date_issued = ""
        /\ h.data_dict.notices[1].personnel # <<>>
        /\ h.pre = SeededStore
        /\ h.status = "Created"
        /\ RowOf(h.post, h.id).notice_id = 0

\* The sections a creating run went through: the notice's when a notice row
\* was inserted, and those of the record.
SectionsOf(h) ==
    (IF Grew(h, "power_interruption_notices") THEN NoticeSections ELSE {})
        \cup DataSections

EntityRows(store, sec, item) ==
    {e \in Range(store[EntityTable(sec)]) :
        \A c \in MatchColumns(sec) : e[c] = item[c]}

\* The entity row e is linked to what run h created, in section sec.
Linked(h, sec, e) ==
    \E l \in Range(h.post[LinkTable(sec)]) :
        l = LinkRow(sec, [record_id |-> h.id,
                          notice_id |-> RowOf(h.post, h.id).notice_id,
                          item_id |-> e.id])

\* C21: a get_or_create call whose item_data lacks a match column returns no
\* identifier and leaves every table unchanged; a reconciliation whose
\* extraction holds an entity without its match-key values (store calls
\* succeeding, record created) writes no row for that entity and still
\* stores and links every other entity of the extraction.
C21_IncompleteMatchKey ==
    \A h \in Range(hist) :
        /\ (IsCall(h) /\ ~CompleteKey(h)) => (h.id = 0 /\ h.post = h.pre)
        /\ (Keyed(h) /\ Clean(h) /\ h.status = "Created")
            => \A sec \in SectionsOf(h) :
                 \A item \in Range(SecItems(h.data_dict, sec)) :
                    IF ItemValid(item)
                    THEN \E e \in EntityRows(h.post, sec, item) : Linked(h, sec, e)
                    ELSE EntityRows(h.post, sec, item) = {}

C21_Witness ==
    /\ Len(hist) = 2
    /\ IsCall(hist[1]) /\ ~CompleteKey(hist[1]) /\ hist[1].id = 0
    /\ Keyed(hist[2]) /\ Clean(hist[2]) /\ hist[2].status = "Created"
    /\ hist[2].data_dict.affected_customers = <<"Acme Corp", "", "Acme Corp">>
    /\ Len(hist[2].post["data_customers"]) = 2

\* Every table keeps the rows it has, in place and unchanged.
AppendOnly ==
    \A t \in Tables :
        /\ Len(db'[t]) >= Len(db[t])
        /\ \A k \in 1..Len(db[t]) : db'[t][k] = db[t][k]

\* C22: no step of a reconciliation or of get_or_create updates or deletes
\* a stored row: across every step, whichever store calls fail, each table
\* keeps every row it had, unchanged, and can only gain rows.
C22_AppendOnlyStore == [][AppendOnly]_vars

\* A record was created, and a later run inserted its own main row and then
\* met a failing store call; the first record is still stored as created.
C22_Witness ==
    /\ Len(hist) = 2
    /\ IsRun(hist[1]) /\ hist[1].status = "Created"
    /\ Grew(hist[1], "power_interruption_data")
    /\ IsRun(hist[2]) /\ hist[2].fails # {}
    /\ Grew(hist[2], "power_interruption_data")
    /\ RowOf(db, hist[1].id) = RowOf(hist[1].post, hist[1].id)

\* The terminal outcomes of the reconciliation's state machine, by the names
\* the endpoint's model gives them.
TerminalOutcomes ==
    {"Irrelevant", "ParseError", "Duplicate", "Created", "CreationFailed"}

\* C23: every reconciliation that has ended, whichever store calls succeeded
\* or failed on its way, ended in one of the outcomes Irrelevant, ParseError,
\* DuplicateFound, Created or CreationFailed.
C23_TerminalOutcome ==
    \A h \in Range(hist) : IsRun(h) => h.status \in TerminalOutcomes

\* The stage of a reconciliation a table belongs to: 1 the notice and what
\* hangs on it, 2 the main record, 3 areas and barangays, 4 the record's
\* customers, 5 the record's activities.  The customer and activity entity
\* tables are written at the notice's stage and at the record's (0).
TableStage(t) ==
    CASE t \in {"power_interruption_notices", "personnel", "notice_personnel",
                "notice_customers", "notice_activities"} -> 1
      [] t = "power_interruption_data" -> 2
      [] t \in {"affected_areas", "data_areas", "barangays"} -> 3
      [] t = "data_customers" -> 4
      [] t = "data_activities" -> 5
      [] OTHER -> 0

\* The stage of a write to table t by a run standing in section sec.
WriteStage(sec, t) ==
    IF TableStage(t) # 0 THEN TableStage(t)
    ELSE IF sec \in NoticeSections THEN 1
    ELSE IF sec = "customers" THEN 4
    ELSE 5

\* The latest stage the run of p has written at so far.
StageReached(p) ==
    LET done == {TableStage(t) : t \in {u \in Tables :
                    Len(db[u]) > Len(proc[p].pre[u])}}
    IN  CHOOSE s \in done \cup {0} : \A x \in done : x <= s

\* A write of a reconciliation comes at or after the stage of every write the
\* run made before it, and after the main insert when its stage is a later
\* one.
OrderedWrite ==
    \A p \in Procs : \A t \in Tables :
        (proc[p].pc # "idle" /\ IsRun(proc[p]) /\ db'[t] # db[t])
        => /\ StageReached(p) <= WriteStage(proc[p].sec, t)
           /\ WriteStage(proc[p].sec, t) > 2
                => Grew([pre |-> proc[p].pre, post |-> db],
                        "power_interruption_data")

NewRow(h, t) == h.post[t][Len(h.pre[t]) + 1]

\* The main row a run inserted refers to the notice row the same run
\* inserted, or to none.
NoticeOfRun ==
    \A h \in Range(hist) :
        (IsRun(h) /\ Grew(h, "power_interruption_data"))
        => NewRow(h, "power_interruption_data").notice_id
             = IF Grew(h, "power_interruption_notices")
               THEN NewRow(h, "power_interruption_notices").id
               ELSE 0

HasBoth(d) ==
    /\ d.notices # <<>>
    /\ d.notices[1].control_no # ""
    /\ d.notices[1].date_issued # ""

\* The runs so far, all without a failing store call, that created a record
\* from an extraction satisfying ready and carrying control_no c.
CreatingRuns(ready(_), c) ==
    {k \in DOMAIN hist :
        /\ IsRun(hist[k]) /\ hist[k].status = "Created"
        /\ ready(hist[k].data_dict)
        /\ hist[k].data_dict.notices[1].control_no = c}

ControlNos == {"N-001", "N-002"}

\* Between runs, n creating reconciliations with control_no c have left n
\* notice rows with it, each inserted by its run; ready says which
\* extractions count.
NoticePerRun(ready(_)) ==
    ((\A h \in Range(hist) : Clean(h)) /\ (\A p \in Procs : proc[p] = Idle))
    => /\ \A h \in Range(hist) :
            (IsRun(h) /\ h.status = "Created" /\ ready(h.data_dict))
            => /\ Grew(h, "power_interruption_notices")
               /\ NewRow(h, "power_interruption_notices").control_no
                    = h.data_dict.notices[1].control_no
       /\ \A c \in ControlNos :
            Cardinality(NoticeRows(db, c)) = Cardinality(CreatingRuns(ready, c))

BarangayRows(store, name, area_id) ==
    {r \in Range(store["barangays"]) : r.name = name /\ r.area_id = area_id}

\* C26: the barangays table holds at most one row per (name, area_id); a
\* created record (store calls succeeding) leaves one barangay row under
\* each named area for every barangay name listed with it, so the same
\* name listed under two areas has two rows; a barangay row carries its name
\* and its area only, and no other table refers to a barangay.
C26_BarangayScopedToArea ==
    /\ \A r1, r2 \in Range(db["barangays"]) :
            (r1.name = r2.name /\ r1.area_id = r2.area_id) => r1.id = r2.id
    /\ \A h \in Range(hist) :
            (Keyed(h) /\ Clean(h) /\ h.status = "Created")
            => \A a \in Range(h.data_dict.affected_areas) :
                 a.name # ""
                 => \E e \in EntityRows(h.post, "areas", [name |-> a.name]) :
                      \A b \in Range(a.barangays) :
                         b # "" => Cardinality(BarangayRows(h.post, b, e.id)) = 1
    /\ \A r \in Range(db["barangays"]) : DOMAIN r = {"id", "name", "area_id"}
    /\ \A t \in Tables \ {"barangays"} :
            \A r \in Range(db[t]) : "barangay_id" \notin DOMAIN r

\* A created record whose areas Lipa and Taal both list Poblacion, Taal
\* twice: one Poblacion row under each area.
C26_Witness ==
    \E h \in Range(hist) :
        /\ Keyed(h) /\ Clean(h) /\ h.status = "Created"
        /\ Len(h.data_dict.affected_areas) = 2
        /\ h.data_dict.affected_areas[2].barangays = <<"", "Poblacion", "Poblacion">>
        /\ Len(h.post["barangays"]) = 2
        /\ \A k \in 1..2 : h.post["barangays"][k].name = "Poblacion"
        /\ h.post["barangays"][1].area_id # h.post["barangays"][2].area_id

\* How many rows of table t equal row.
Copies(store, t, row) ==
    Cardinality({k \in DOMAIN store[t] : store[t][k] = row})

\* name is stored once as an entity of section dsec, linked once to the
\* notice of run h (section nsec) and once to its record (section dsec).
LinkedAtBothLevels(h, nsec, dsec, name) ==
    LET rows == EntityRows(h.post, dsec, [name |-> name])
        ids == [record_id |-> h.id,
                notice_id |-> RowOf(h.post, h.id).notice_id,
                item_id |-> 0]
    IN  /\ Cardinality(rows) = 1
        /\ \A e \in rows :
              /\ Copies(h.post, LinkTable(nsec),
                        LinkRow(nsec, [ids EXCEPT !.item_id = e.id])) = 1
              /\ Copies(h.post, LinkTable(dsec),
                        LinkRow(dsec, [ids EXCEPT !.item_id = e.id])) = 1

TwoLevels == {<<"n_customers", "customers">>, <<"n_activities", "activities">>}

ListedOnce(d, sec, name) ==
    Occurrences(SecItems(d, sec), [name |-> name]) = 1

\* C27: when a customer (or activity) name is listed in the notice and at
\* the top level of one extraction, once each, a reconciliation that
\* creates the record and its notice with every store call succeeding
\* leaves exactly one entity row for the name, one notice-level link row
\* from the notice to it and one record-level link row from the main record
\* to it.
C27_TwoLevelAssociation ==
    \A h \in Range(hist) :
        (Keyed(h) /\ Clean(h) /\ h.status = "Created" /\ NoticeReady(h.data_dict))
        => \A lv \in TwoLevels :
             \A item \in Range(SecItems(h.data_dict, lv[1])) :
                (/\ item.name # ""
                 /\ ListedOnce(h.data_dict, lv[1], item.name)
                 /\ ListedOnce(h.data_dict, lv[2], item.name))
                => LinkedAtBothLevels(h, lv[1], lv[2], item.name)

C27_Witness ==
    \E h \in Range(hist) :
        /\ Keyed(h) /\ Clean(h) /\ h.status = "Created"
        /\ NoticeReady(h.data_dict)
        /\ h.pre = SeededStore
        /\ \A lv \in TwoLevels :
              /\ Len(SecItems(h.data_dict, lv[2])) = 1
              /\ ListedOnce(h.data_dict, lv[1], SecItems(h.data_dict, lv[2])[1].name)
              /\ Len(h.post[EntityTable(lv[2])]) = 1
              /\ Len(h.post[LinkTable(lv[1])]) = 1
              /\ Len(h.post[LinkTable(lv[2])]) = 1

\* The same-date query of run h failed.
CheckFailedIn(h) ==
    [call |-> "select", table |-> "power_interruption_data"] \in h.fails

\* C28: a reconciliation whose same-date existence query fails ends with an
\* error status returned to the caller, and has inserted no row into any
\* table.
C28_CheckFailureFatal ==
    \A h \in Range(hist) :
        (IsRun(h) /\ CheckFailedIn(h))
        => /\ h.code # HTTP_200_OK
           /\ h.id = 0
           /\ h.post = h.pre

\* The query fails for an extraction that would otherwise be a duplicate of
\* the record the run before created.
C28_Witness ==
    /\ Len(hist) = 2
    /\ Keyed(hist[1]) /\ hist[1].status = "Created"
    /\ Keyed(hist[2]) /\ CheckFailedIn(hist[2])
    /\ KeyOf(hist[2].data_dict) = KeyOf(hist[1].data_dict)
    /\ hist[2].code = HTTP_503_SERVICE_UNAVAILABLE
    /\ hist[2].post = hist[1].post

InsertFailedIn(h, t) == [call |-> "insert", table |-> t] \in h.fails

\* The link rows run h wrote in section sec, and the elements of the section
\* the loop does not skip.
LinksWritten(h, sec) ==
    Len(h.post[LinkTable(sec)]) - Len(h.pre[LinkTable(sec)])

ValidItems(d, sec) ==
    Cardinality({k \in DOMAIN SecItems(d, sec) : ItemValid(SecItems(d, sec)[k])})

\* The entity tables an insert of run h failed on.
FailedTables(h) == {t \in EntityTables : InsertFailedIn(h, t)}

\* The store calls of run h that failed were all entity inserts.
OnlyEntityInsertsFailed(h) ==
    /\ h.fails # {}
    /\ h.fails = {[call |-> "insert", table |-> t] : t \in FailedTables(h)}

\* C29: a get_or_create call whose select finds no row and whose insert
\* fails (exception or empty result) returns normally with no identifier and
\* leaves the store unchanged; a reconciliation in which only such inserts
\* fail still ends as Created, with a link row for every entity of the
\* sections whose table had no failure, and, for each table with a failure,
\* a section with fewer link rows than entities.
C29_InsertFailure ==
    \A h \in Range(hist) :
        /\ (IsCall(h) /\ InsertFailedIn(h, h.call.table))
            => (h.status = "Returned" /\ h.id = 0 /\ h.post = h.pre)
        /\ (IsRun(h) /\ OnlyEntityInsertsFailed(h))
            => /\ h.status = "Created"
               /\ \A sec \in SectionsOf(h) :
                    IF EntityTable(sec) \in FailedTables(h)
                    THEN LinksWritten(h, sec) <= ValidItems(h.data_dict, sec)
                    ELSE LinksWritten(h, sec) = ValidItems(h.data_dict, sec)
               /\ \A t \in FailedTables(h) :
                    \E sec \in SectionsOf(h) :
                        /\ EntityTable(sec) = t
                        /\ LinksWritten(h, sec) < ValidItems(h.data_dict, sec)

\* Taal is stored and Lipa is not; the insert of Lipa fails and the record
\* is created with the link to Taal alone.
C29_Witness ==
    \E h \in Range(hist) :
        /\ IsRun(h) /\ h.status = "Created"
        /\ h.fails = {[call |-> "insert", table |-> "affected_areas"]}
        /\ h.pre = SeededStore
        /\ h.data_dict.affected_areas = <<Taal, Lipa>>
        /\ h.post["affected_areas"] = h.pre["affected_areas"]
        /\ LinksWritten(h, "areas") = 1

\* s is four digits followed by H.
IsHHMMH(s) ==
    /\ Len(s) = 5
    /\ SubSeq(s, 1, 4) \in [1..4 -> Digits]
    /\ s[5] = "H"

\* C30: when a raw time string, trimmed and upper-cased, is four digits
\* d1 d2 d3 d4 followed by H, clean_time_string returns d1 d2 : d3 d4, which
\* for a valid hour and minute parses to that time on the record's date;
\* every other string reaches the parser trimmed and upper-cased, with no
\* rewrite.
C30_TimeNormalization ==
    \A h \in Range(hist) :
        LET s == upper(strip(h.time_str)) IN
        IF IsHHMMH(s)
        THEN /\ h.cleaned = <<s[1], s[2], ":", s[3], s[4]>>
             /\ LET hh == 10 * DigitVal(s[1]) + DigitVal(s[2])
                    mm == 10 * DigitVal(s[3]) + DigitVal(s[4])
                IN  (hh < 24 /\ mm < 60)
                    => h.full = [date |-> "2025-06-05", hour |-> hh, minute |-> mm]
        ELSE h.cleaned = s

\* " 0600h" is cleaned to "06:00" and parsed to 06:00 on the record's date.
C30_Witness ==
    \E h \in Range(hist) :
        /\ h.time_str = <<" ", "0", "6", "0", "0", "h">>
        /\ h.cleaned = <<"0", "6", ":", "0", "0">>
        /\ h.full = [date |-> "2025-06-05", hour |-> 6, minute |-> 0]

\* A scrape result given directly as a list of posts, and the same result
\* given as a dict.
IsPostList(d) ==
    d.type = "list" /\ \A k \in 1..Len(d.items) : d.items[k].type = "dict"

AsDict(d) == IF d.type = "list" THEN [type |-> "dict", posts |-> d] ELSE d

\* C31: find_new_posts returns for old and new given directly as lists of
\* posts what it returns for the same lists given as {posts: list}.
C31_BothRepresentations ==
    \A h \in Range(hist) :
        ((IsPostList(h.old_data) \/ WellFormed(h.old_data))
            /\ (IsPostList(h.new_data) \/ WellFormed(h.new_data)))
        => h.result = find_new_posts(AsDict(h.old_data), AsDict(h.new_data))

\* The admitted calls among the first n of the log that client_ip made less
\* than a window before time t.
AdmittedBefore(n, client_ip, t) ==
    {j \in 1..n :
        /\ hist[j].result
        /\ hist[j].client_ip = client_ip
        /\ hist[j].current_time <= t
        /\ t - hist[j].current_time < RATE_LIMIT_WINDOW}

\* C32: with calls that do not overlap, no admitted call of a client has more
\* than MAX_REQUESTS_PER_WINDOW admitted calls of that client (itself
\* included) in the RATE_LIMIT_WINDOW seconds up to it; and a call returns
\* False exactly when its client already has MAX_REQUESTS_PER_WINDOW admitted
\* calls in the last RATE_LIMIT_WINDOW seconds, whatever other clients did.
C32_RateLimit ==
    \A k \in DOMAIN hist :
        LET h == hist[k] IN
        /\ h.result
            => Cardinality(AdmittedBefore(Len(hist), h.client_ip, h.current_time))
                    <= MAX_REQUESTS_PER_WINDOW
        /\ ~h.earlier
            => (h.result
                 <=> Cardinality(AdmittedBefore(k - 1, h.client_ip, h.current_time))
                        < MAX_REQUESTS_PER_WINDOW)

\* The tenth call of a client is admitted, its eleventh in the same window
\* is refused, and another client is admitted right after.
C32_Witness ==
    /\ Len(hist) = MAX_REQUESTS_PER_WINDOW + 2
    /\ \A k \in 1..MAX_REQUESTS_PER_WINDOW :
            hist[k].result /\ hist[k].client_ip = "10.0.0.1"
    /\ LET h == hist[MAX_REQUESTS_PER_WINDOW + 1] IN
            h.client_ip = "10.0.0.1" /\ ~h.result /\ h.current_time = 1800
    /\ LET h == hist[MAX_REQUESTS_PER_WINDOW + 2] IN
            h.client_ip = "10.0.0.2" /\ h.result /\ h.current_time = 1800

\* How many entries of the global list, and how many admitted calls, carry
\* client_ip and t.
Entries(client_ip, t) ==
    Cardinality({k \in DOMAIN db.request_timestamps :
                    db.request_timestamps[k] = <<client_ip, t>>})

Admissions(client_ip, t) ==
    Cardinality({k \in DOMAIN hist :
                    /\ hist[k].result
                    /\ hist[k].client_ip = client_ip
                    /\ hist[k].current_time = t})

\* An eleventh admitted call of one client in one window.
OverLimit ==
    \E k \in DOMAIN hist :
        /\ hist[k].result
        /\ Cardinality(AdmittedBefore(Len(hist), hist[k].client_ip,
                                      hist[k].current_time))
                > MAX_REQUESTS_PER_WINDOW

\* An admitted call, less than a window old, whose timestamp is not in the
\* list.
LostTimestamp ==
    \E client_ip \in Clients : \E t \in Times :
        /\ db.time - t < RATE_LIMIT_WINDOW
        /\ Entries(client_ip, t) < Admissions(client_ip, t)

\* C33: with calls running in several threads, their prune, count and append
\* steps interleaving, no admitted call of a client has more than
\* MAX_REQUESTS_PER_WINDOW admitted calls of that client in the
\* RATE_LIMIT_WINDOW seconds up to it, and the timestamp of every admitted
\* call that is less than RATE_LIMIT_WINDOW seconds old is in the list.
C33_RateLimitRace == ~OverLimit /\ ~LostTimestamp


Finished == {"completed", "failed"}

Posts == {k \in 1..Len(hist) : hist[k].op = "post"}
Deletes == {k \in 1..Len(hist) : hist[k].op = "delete"}
Lookups == {k \in 1..Len(hist) : hist[k].op = "status"}

\* C34: a POST for a URL that has an accepted task whose job has not ended
\* starts no second job and answers with the id of that task.
C34_OneActiveTaskPerUrl ==
    \A k \in Posts :
        (hist[k].code = HTTP_202_ACCEPTED /\ hist[k].live # {}) =>
            ~hist[k].started /\ hist[k].task_id \in hist[k].live

\* C35: delete_task answers 400 for every task that has not reached
\* completed or failed, 404 for an unknown id, and removes a finished task.
C35_NoDeletionOfRunningTask ==
    \A k \in Deletes :
        /\ ~hist[k].known => hist[k].code = HTTP_404_NOT_FOUND
        /\ (hist[k].known /\ hist[k].status \notin Finished) =>
                hist[k].code = HTTP_400_BAD_REQUEST
        /\ (hist[k].known /\ hist[k].status \in Finished) =>
                hist[k].code = HTTP_204_NO_CONTENT

\* The task id was registered again by a POST between requests i and j.
Reposted(task_id, i, j) ==
    \E k \in Posts : i < k /\ k < j /\ hist[k].started /\ hist[k].task_id = task_id

\* C36: after delete_task removed a task id, and until a POST registers
\* that id again, every status lookup for it answers 404.
C36_DeletedStaysDeleted ==
    \A i \in Deletes : \A j \in Lookups :
        ( /\ i < j
          /\ hist[i].code = HTTP_204_NO_CONTENT
          /\ hist[j].task_id = hist[i].task_id
          /\ ~Reposted(hist[i].task_id, i, j) ) =>
            hist[j].code = HTTP_404_NOT_FOUND

\* The order of the statuses of a task.
Rank(status) ==
    CASE status = "in_progress" -> 1
      [] status = "processing" -> 2
      [] status = "scraping" -> 3
      [] OTHER -> 4

\* A step that answers no request: a step of a job, or of the clock.
NoRequest == hist' = hist

StatusForward ==
    NoRequest =>
        \A task_id \in DOMAIN Registry \cap DOMAIN db'.active_scraping_tasks :
            LET old == Registry[task_id].status
                new == db'.active_scraping_tasks[task_id].status
            IN  /\ Rank(new) >= Rank(old)
                /\ old \in Finished => new = old

\* C37: in the steps of the jobs the status of a task only moves forward
\* along in_progress, processing, scraping, completed or failed, and a
\* completed or failed status is not changed again.
C37_StatusOnlyForward == [][StatusForward]_vars


\* The row of table t with identifier id is stored.
Stored(t, id) == id \in 1..Len(db[t])

\* The column of a link row that holds the entity's identifier.
EntityColumn(sec) ==
    CASE sec = "n_personnel" -> "personnel_id"
      [] sec \in {"n_customers", "customers"} -> "customer_id"
      [] sec \in {"n_activities", "activities"} -> "activity_id"
      [] sec = "areas" -> "area_id"

LinksRefer ==
    \A sec \in NoticeSections \cup DataSections :
        \A k \in 1..Len(db[LinkTable(sec)]) :
            LET l == db[LinkTable(sec)][k] IN
            /\ Stored(EntityTable(sec), l[EntityColumn(sec)])
            /\ IF sec \in NoticeSections
               THEN Stored("power_interruption_notices", l.notice_id)
               ELSE Stored("power_interruption_data", l.data_id)

BarangaysRefer ==
    \A k \in 1..Len(db["barangays"]) :
        Stored("affected_areas", db["barangays"][k].area_id)

RecordsRefer ==
    \A k \in 1..Len(db["power_interruption_data"]) :
        LET r == db["power_interruption_data"][k] IN
        r.notice_id # 0 => Stored("power_interruption_notices", r.notice_id)

\* C38: in every reachable state, whatever store calls failed, every link
\* row refers to a stored record (or notice) and a stored entity, every
\* barangay to a stored area, and every record's notice_id to a stored notice.
C38_ReferentialIntegrity == LinksRefer /\ BarangaysRefer /\ RecordsRefer

\* Rows of every kind are stored after a reconciliation in which a store
\* call failed.
C38_Witness ==
    /\ nfail > 0
    /\ \E sec \in NoticeSections : db[LinkTable(sec)] # <<>>
    /\ \E sec \in DataSections : db[LinkTable(sec)] # <<>>
    /\ db["barangays"] # <<>>
    /\ \E k \in 1..Len(db["power_interruption_data"]) :
            db["power_interruption_data"][k].notice_id # 0


\* C39: no link table holds two rows with the same pair of identifiers,
\* also when the extraction lists a name more than once.
C39_NoRepeatedPair ==
    \A t \in LinkTables :
        \A i, j \in 1..Len(db[t]) : i < j => db[t][i] # db[t][j]

====
